---- MODULE Spec2Model ----
(***************************************************************************)
(* AP2 vacation-booking demo: the mandate integrity service (hashObject,   *)
(* signCartMandate, signPaymentMandate, verifyJWT), the A2A envelope       *)
(* reader, the Merchant Agent, the Credentials Provider, the Shopping      *)
(* Agent API and the browser session that drives them.                     *)
(*                                                                         *)
(* The specifications share the definitions:                               *)
(*   SpecIntegrity  sign a cart, change one field afterwards, verify       *)
(*   SpecCanonical  sign a cart whose copy has its members in another order*)
(*   SpecAgents     the Merchant Agent and the Credentials Provider        *)
(*   SpecShopping   the Shopping Agent API on bounded requests             *)
(*   SpecSessions   the three agents serving two sessions in any order     *)
(*   SpecDialogue   one caller of the Shopping Agent API searching again   *)
(*   SpecAmounts    the amounts of a cart in floating point                *)
(*   SpecHistory    a conversation history serialized and deserialized    *)
(*   Spec           the browser session (pages/index.tsx + StripeCheckout) *)
(*   SpecSession    the browser session while time passes                  *)
(*   SpecSettle     the browser session with its fetches answered          *)
(*                                                                         *)
(* Time is read from one clock, now, in minutes; every Date.now() and      *)
(* new Date() of a handler reads it.                                       *)
(***************************************************************************)
EXTENDS Integers, Sequences, FiniteSets, TLC

VARIABLES
  now,            \* the clock every Date.now() reads
  \* ---- SpecIntegrity
  phase,          \* "built" | "signed" | "tampered"
  cartContents,   \* the contents object given to signCartMandate
  jwt,            \* the token signCartMandate returned
  heldContents,   \* the contents object the caller holds after signing
  \* ---- SpecAmounts
  priced,         \* the amounts of the cart built last: its product, its three
                  \* display items and its total
  \* ---- SpecHistory
  agent,          \* a VacationBookingAgent's conversation history on its way to
                  \* the caller and back into a new agent
  \* ---- SpecAgents, SpecShopping
  call,           \* the HTTP call handled last: handler, request, response
  kept,           \* an earlier Payment mandate the client still holds
  wallet,         \* the array USER_PAYMENT_METHODS of the Credentials Provider's module
  session,        \* what a caller of the Shopping Agent API said in its searches
                  \* and carries from one search to the next
  \* ---- Spec: the page (pages/index) and its StripeCheckout component.
  \* The messages list is kept as what the page reads of it: its last
  \* message, the Retry buttons of earlier messages, the carts on offer.
  lastMessage,          \* messages[messages.length - 1]
  staleRetry,           \* earlier messages with showRetry
  offered,              \* the packages of all messages
  isProcessing,
  selectedPackage,
  showStripeCheckout,
  paymentComplete,
  paymentFailed,
  contextId,
  conversationHistory,
  pending,              \* the fetches to /api/shopping-agent not yet answered
  clientSecret,         \* StripeCheckout: the payment intent is ready
  unsettled,            \* CheckoutForm: confirmPayment came back for the form on
                        \* screen with no error and no succeeded payment
  intents,              \* fetches to /api/create-payment-intent not yet answered
  lastIntent,           \* the payment intent asked for last
  lastMandate,          \* the cart of the Payment mandate signed last
  methodsFor,           \* the ids of the carts whose payment methods were received
  envelopes             \* addressee and context_id of the envelopes sent to the
                        \* agents while serving the page

integrityVars == <<phase, cartContents, jwt, heldContents, priced, agent>>
apiVars == <<call, kept, wallet, session>>
uiVars == <<lastMessage, staleRetry, offered, isProcessing, selectedPackage,
            showStripeCheckout, paymentComplete, paymentFailed, contextId,
            conversationHistory, pending, clientSecret, unsettled, intents,
            lastIntent, lastMandate, methodsFor, envelopes>>
vars == <<now, phase, cartContents, jwt, heldContents, priced, agent, call, kept, wallet, session,
          uiVars>>

(***************************************************************************)
(* Bounds of the model.                                                    *)
(***************************************************************************)
MaxNow == 135        \* the clock stops here (minutes)
MaxRand == 2         \* Math.random() suffixes are drawn from 1..MaxRand
MaxMerchantParts == 2     \* parts of a request envelope sent to the Merchant Agent
MaxCredentialsParts == 3  \* parts of a request envelope
MaxPending == 2      \* fetches of the page not yet answered
MaxIntents == 1      \* payment-intent fetches not yet answered
MaxRetryButtons == 1 \* messages that show a Retry button
MaxPageNow == 1      \* the clock of the page's session stops here
MaxSwaps == 2        \* exchanges of two members that make a copy of a contents object
MaxUtterances == 3   \* searches of one session of a caller of the Shopping Agent API
MaxTurns == 1        \* human turns in the conversation history sent to the Credentials Provider

(***************************************************************************)
(* Program constants (minutes).                                            *)
(***************************************************************************)
CartTokenTtl == 15       \* setExpirationTime("15m")
PaymentTokenTtl == 60    \* setExpirationTime("1h")
CartExpiryTtl == 120     \* 2 * 60 * 60 * 1000 ms
RefundPeriod == 30       \* refund_period: 30

Rands == 1..MaxRand
\* the clock moves by a part of a token's life, by a token's life, by a cart's
TickSteps == {CartTokenTtl \div 3, CartTokenTtl, CartExpiryTtl}

(***************************************************************************)
(* JSON values.  Every value is a record of the same shape so that any two *)
(* can be compared: t is the kind, s the text of a string, n the number,   *)
(* kv the members of an object (in insertion order) or the elements of an  *)
(* array.                                                                  *)
(***************************************************************************)
JStr(s) == [t |-> "str", s |-> s, n |-> 0, kv |-> <<>>]
JNum(n) == [t |-> "num", s |-> "", n |-> n, kv |-> <<>>]
JBool(b) == [t |-> "bool", s |-> IF b THEN "true" ELSE "false", n |-> 0, kv |-> <<>>]
JDate(n) == [t |-> "date", s |-> "", n |-> n, kv |-> <<>>]
JUndef == [t |-> "undef", s |-> "", n |-> 0, kv |-> <<>>]
JNull == [t |-> "null", s |-> "", n |-> 0, kv |-> <<>>]
JObj(kv) == [t |-> "obj", s |-> "", n |-> 0, kv |-> kv]
JArr(es) == [t |-> "arr", s |-> "", n |-> 0,
             kv |-> [i \in 1..Len(es) |-> [k |-> "", v |-> es[i]]]]
KV(k, v) == [k |-> k, v |-> v]

IsAtom(v) == v.t \notin {"obj", "arr", "jwt"}

HasKey(o, k) == \E i \in 1..Len(o.kv) : o.kv[i].k = k

\* o[k] of JavaScript: undefined when the property is missing
Get(o, k) ==
  IF o.t = "obj" /\ HasKey(o, k)
    THEN o.kv[CHOOSE i \in 1..Len(o.kv) : o.kv[i].k = k].v
    ELSE JUndef

\* JavaScript truthiness of a JSON value
Truthy(v) ==
  CASE v.t \in {"undef", "null"} -> FALSE
    [] v.t = "str" -> v.s # ""
    [] v.t = "num" -> v.n # 0
    [] v.t = "bool" -> v.s = "true"
    [] OTHER -> TRUE

(***************************************************************************)
(* Every property name of the program, in the order Array.prototype.sort   *)
(* gives strings (UTF-16 code units).                                      *)
(***************************************************************************)
KeyOrder ==
  << "amount", "cart_expiry", "currency", "data", "details", "display_items",
     "id", "image_url", "label", "merchant_agent", "merchant_name",
     "method_data", "method_name", "options", "payer_email", "payer_name",
     "payment_details_id", "payment_details_total", "payment_mandate_id",
     "payment_method_id", "payment_request", "payment_response",
     "refund_period", "request_id", "request_payer_email",
     "request_payer_name", "request_shipping", "supported_methods",
     "supported_networks", "timestamp", "total",
     "user_cart_confirmation_required", "value" >>

InList(k, list) == \E i \in 1..Len(list) : list[i] = k

\* A mutant of SortedKeys: Object.keys(obj), in insertion order
OwnKeys(obj) == [i \in 1..Len(obj.kv) |-> obj.kv[i].k]

\* Object.keys(obj).sort()
SortedKeys(obj) == LET Own(k) == HasKey(obj, k) IN SelectSeq(KeyOrder, Own)

\* the texts of a sequence, one after the other
RECURSIVE Concat(_)
Concat(ss) == IF ss = <<>> THEN "" ELSE Head(ss) \o Concat(Tail(ss))

(***************************************************************************)
(* JSON.stringify(value, replacer) with an array replacer: the array is a  *)
(* list of property names applied to EVERY object of the value, nested     *)
(* ones included; members come out in the order of the list; a member      *)
(* whose value is undefined is left out; array elements are never          *)
(* filtered.                                                               *)
(***************************************************************************)
AtomText(v) ==
  CASE v.t = "str" -> "'" \o v.s \o "'"
    [] v.t \in {"num", "date"} -> ToString(v.n)
    [] v.t = "bool" -> v.s
    [] OTHER -> "null"

RECURSIVE Stringify(_, _)
Stringify(v, replacer) ==
  CASE v.t = "obj" ->
         "{"
         \o Concat([i \in 1..Len(replacer) |->
              IF Get(v, replacer[i]).t = "undef" THEN ""
              ELSE replacer[i] \o ":" \o Stringify(Get(v, replacer[i]), replacer) \o ","])
         \o "}"
    [] v.t = "arr" ->
         "["
         \o Concat([i \in 1..Len(v.kv) |-> Stringify(v.kv[i].v, replacer) \o ","])
         \o "]"
    [] OTHER -> AtomText(v)

(***************************************************************************)
(* hashObject: SHA-256 of the canonical text.  SHA-256 is taken as         *)
(* collision free: the digest is the text it was computed from.            *)
(***************************************************************************)
hashObject(obj) == Stringify(obj, SortedKeys(obj))

(***************************************************************************)
(* Signed tokens.  HS256 with the process-wide key: the MAC is the key     *)
(* together with the header and claims it was computed over.  A token is a *)
(* JSON value of kind "jwt" (on the wire, a string of three segments).     *)
(***************************************************************************)
SECRET_KEY == "JWT_SECRET"

Jwt(header, payload, key) ==
  [t |-> "jwt", s |-> "", n |-> 0,
   kv |-> <<KV("header", header), KV("payload", payload),
            KV("mac", JObj(<<KV("key", JStr(key)), KV("header", header),
                             KV("payload", payload)>>))>>]

Header(token) == token.kv[1].v
Payload(token) == token.kv[2].v
Mac(token) == token.kv[3].v

\* new SignJWT(payload).setProtectedHeader(header)...sign(SECRET_KEY)
SignJWT(header, payload) == Jwt(header, payload, SECRET_KEY)

\* jwtVerify: the token's form and signature, then the exp claim against
\* the clock
SignatureValid(token) ==
  /\ token.t = "jwt"
  /\ Get(Mac(token), "key") = JStr(SECRET_KEY)
  /\ Get(Mac(token), "header") = Header(token)
  /\ Get(Mac(token), "payload") = Payload(token)

\* what jwtVerify throws, as `${error}` renders it
SIGNATURE_FAILED == "JWSSignatureVerificationFailed: signature verification failed"
EXPIRED == "JWTExpired: \"exp\" claim timestamp check failed"

\* throw new Error(`JWT verification failed: ${error}`)
VerificationFailed(error) ==
  [ok |-> FALSE, error |-> "JWT verification failed: " \o error, payload |-> JUndef]

\* A mutant of verifyJWT: the exp claim is not looked at
verifyJWTWithoutExpiry(token, t) ==
  IF ~SignatureValid(token) THEN VerificationFailed(SIGNATURE_FAILED)
  ELSE [ok |-> TRUE, error |-> "", payload |-> Payload(token)]

\* A mutant of verifyJWT: the error caught is not put into the message
verifyJWTOneMessage(token, t) ==
  IF ~SignatureValid(token) THEN VerificationFailed("")
  ELSE IF Get(Payload(token), "exp").n <= t THEN VerificationFailed("")
  ELSE [ok |-> TRUE, error |-> "", payload |-> Payload(token)]

\* the signature is verified first, the claims are validated after
verifyJWT(token, t) ==
  IF ~SignatureValid(token) THEN VerificationFailed(SIGNATURE_FAILED)
  ELSE IF Get(Payload(token), "exp").n <= t THEN VerificationFailed(EXPIRED)
  ELSE [ok |-> TRUE, error |-> "", payload |-> Payload(token)]

signCartMandate(contents, t) ==
  SignJWT(JObj(<<KV("alg", JStr("HS256")), KV("kid", JStr("merchant-key-2024"))>>),
          JObj(<<KV("iss", JStr("tropical-paradise-vacations")),
                 KV("sub", JStr("merchant-agent-001")),
                 KV("aud", JStr("payment-processor")),
                 KV("cart_id", Get(contents, "id")),
                 KV("cart_hash", JStr(hashObject(contents))),
                 KV("iat", JNum(t)),
                 KV("exp", JNum(t + CartTokenTtl)),
                 KV("jti", JStr("jwt-" \o Get(contents, "id").s))>>))

signPaymentMandate(contents, t) ==
  SignJWT(JObj(<<KV("alg", JStr("HS256")), KV("kid", JStr("user-key-2024"))>>),
          JObj(<<KV("iss", JStr("did:example:user123")),
                 KV("sub", JStr("user-credential")),
                 KV("aud", JStr("merchant")),
                 KV("payment_mandate_id", Get(contents, "payment_mandate_id")),
                 KV("mandate_hash", JStr(hashObject(contents))),
                 KV("transaction_data", JArr(<<JStr(hashObject(contents))>>)),
                 KV("iat", JNum(t)),
                 KV("exp", JNum(t + PaymentTokenTtl)),
                 KV("jti", JStr("user-sig-" \o Get(contents, "payment_mandate_id").s))>>))

(***************************************************************************)
(* The catalog (lib/vacation-catalog).  Prices are whole dollars.          *)
(***************************************************************************)
VACATION_PACKAGES ==
  << [id |-> "vac-001", name |-> "Bali Beach Retreat", price |-> 2499,
      currency |-> "USD", image_url |-> JStr("/img/bali.jpg")],
     [id |-> "vac-002", name |-> "Swiss Alps Adventure", price |-> 3299,
      currency |-> "USD", image_url |-> JStr("/img/alps.jpg")],
     [id |-> "vac-003", name |-> "Safari Explorer", price |-> 4150,
      currency |-> "USD", image_url |-> JUndef],
     [id |-> "vac-004", name |-> "Costa Rica Eco Lodge", price |-> 1890,
      currency |-> "USD", image_url |-> JStr("/img/costa.jpg")] >>

\* A money amount: value is the amount to the cent, in cents.  The binary
\* numbers that price * 0.85, * 0.05 and * 0.10 give are those of Details,
\* in SpecAmounts.
Amount(currency, cents) ==
  JObj(<<KV("currency", JStr(currency)), KV("value", JNum(cents))>>)

(***************************************************************************)
(* The cart the Merchant Agent builds for one product at clock t with      *)
(* Math.random() suffix r.                                                 *)
(***************************************************************************)
BuildCartContents(product, t, r) ==
  JObj(<<
    KV("id", JStr("cart-" \o ToString(t) \o "-" \o ToString(r))),
    KV("user_cart_confirmation_required", JBool(TRUE)),
    KV("merchant_name", JStr("Tropical Paradise Vacations")),
    KV("cart_expiry", JDate(t + CartExpiryTtl)),
    KV("image_url", product.image_url),
    KV("payment_request", JObj(<<
      KV("method_data", JArr(<<
        JObj(<<KV("supported_methods", JStr("https://www.example.com/card")),
               KV("data", JObj(<<KV("supported_networks",
                    JArr(<<JStr("visa"), JStr("mastercard"), JStr("amex")>>))>>))>>)>>)),
      KV("details", JObj(<<
        KV("id", JStr("payment-" \o ToString(t))),
        KV("display_items", JArr(<<
          JObj(<<KV("label", JStr(product.name)),
                 KV("amount", Amount(product.currency, product.price * 85)),
                 KV("refund_period", JNum(RefundPeriod))>>),
          JObj(<<KV("label", JStr("Travel Insurance")),
                 KV("amount", Amount(product.currency, product.price * 5))>>),
          JObj(<<KV("label", JStr("Service Fee")),
                 KV("amount", Amount(product.currency, product.price * 10))>>)>>)),
        KV("total", JObj(<<
          KV("label", JStr("Total Amount")),
          KV("amount", Amount(product.currency, product.price * 100)),
          KV("refund_period", JNum(RefundPeriod))>>))>>)),
      KV("options", JObj(<<
        KV("request_payer_email", JBool(TRUE)),
        KV("request_payer_name", JBool(TRUE)),
        KV("request_shipping", JBool(FALSE))>>))>>))>>)

\* A mutant of BuildCartMandate: the token is made before the cart gets its id
BuildCartMandateSignedEarly(product, t, r) ==
  LET contents == BuildCartContents(product, t, r)
  IN JObj(<<KV("contents", contents),
            KV("merchant_authorization",
               signCartMandate(
                 [contents EXCEPT !.kv = [i \in DOMAIN @ |->
                    IF @[i].k = "id" THEN KV("id", JStr("")) ELSE @[i]]], t))>>)

BuildCartMandate(product, t, r) ==
  LET contents == BuildCartContents(product, t, r)
  IN JObj(<<KV("contents", contents),
            KV("merchant_authorization", signCartMandate(contents, t))>>)

(***************************************************************************)
(* Paths into a JSON value and the change of the field at a path.          *)
(***************************************************************************)
RECURSIVE AtomPaths(_)
AtomPaths(v) ==
  IF IsAtom(v) THEN {<<>>}
  ELSE UNION {{<<i>> \o p : p \in AtomPaths(v.kv[i].v)} : i \in 1..Len(v.kv)}

RECURSIVE At(_, _)
At(v, path) == IF path = <<>> THEN v ELSE At(v.kv[Head(path)].v, Tail(path))

RECURSIVE Replace(_, _, _)
Replace(v, path, w) ==
  IF path = <<>> THEN w
  ELSE [v EXCEPT !.kv[Head(path)].v = Replace(v.kv[Head(path)].v, Tail(path), w)]

\* a.b.c of JavaScript on a JSON value
RECURSIVE Dig(_, _)
Dig(v, keys) == IF keys = <<>> THEN v ELSE Dig(Get(v, Head(keys)), Tail(keys))

\* What an attacker writes into a field
TamperValues == {JNum(1), JStr("tampered")}

(***************************************************************************)
(* SpecIntegrity: the merchant builds and signs a cart; afterwards one     *)
(* field of the contents the caller holds is changed; time passes.         *)
(***************************************************************************)
NoToken == JUndef

NoPriced == [built |-> FALSE]
NoAgent == [stage |-> "none"]

IntegrityIdle ==
  /\ phase = "idle"
  /\ cartContents = JUndef
  /\ jwt = NoToken
  /\ heldContents = JUndef
  /\ priced = NoPriced
  /\ agent = NoAgent

NoCall == [handler |-> "none"]

NoKept == [held |-> FALSE]

\* a message of the page: its role, its Retry button, and its text where
\* the page reads it, which is in the messages of the user
Message(role, content, showRetry) ==
  [role |-> role, content |-> IF role = "user" THEN content ELSE "",
   showRetry |-> showRetry]

NoIntent == [asked |-> FALSE]

\* the page as it is after its first render
UiIdle ==
  /\ lastMessage = Message("assistant", "Welcome", FALSE)
  /\ staleRetry = 0
  /\ offered = {}
  /\ isProcessing = FALSE
  /\ selectedPackage = JNull
  /\ showStripeCheckout = FALSE
  /\ paymentComplete = FALSE
  /\ paymentFailed = FALSE
  /\ contextId = JStr("")
  /\ conversationHistory = JArr(<<>>)
  /\ pending = <<>>
  /\ clientSecret = FALSE
  /\ unsettled = FALSE
  /\ intents = 0
  /\ lastIntent = NoIntent
  /\ lastMandate = JNull
  /\ methodsFor = {}
  /\ envelopes = {}

\* the wallet of the Credentials Provider (Mock user wallet)
USER_PAYMENT_METHODS ==
  JArr(<<
    JObj(<<KV("id", JStr("pm-001")), KV("alias", JStr("Primary Visa")),
           KV("type", JStr("card")), KV("last4", JStr("4242")),
           KV("brand", JStr("Visa"))>>),
    JObj(<<KV("id", JStr("pm-002")), KV("alias", JStr("Mastercard Rewards")),
           KV("type", JStr("card")), KV("last4", JStr("5555")),
           KV("brand", JStr("Mastercard"))>>),
    JObj(<<KV("id", JStr("pm-003")), KV("alias", JStr("Digital Wallet")),
           KV("type", JStr("wallet"))>>)>>)

\* the caller's useState values before its first search
NoSession ==
  [uttered |-> <<>>, contextId |-> JStr(""), conversationHistory |-> JArr(<<>>)]

ApiIdle ==
  call = NoCall /\ kept = NoKept /\ wallet = USER_PAYMENT_METHODS /\ session = NoSession

IntegrityInit ==
  /\ now = 0
  /\ UiIdle
  /\ ApiIdle
  /\ phase = "built"
  /\ \E p \in 1..Len(VACATION_PACKAGES), r \in Rands :
       cartContents = BuildCartContents(VACATION_PACKAGES[p], 0, r)
  /\ jwt = NoToken
  /\ heldContents = cartContents
  /\ priced = NoPriced
  /\ agent = NoAgent

SignCart ==
  /\ phase = "built"
  /\ jwt' = signCartMandate(cartContents, now)
  /\ phase' = "signed"
  /\ UNCHANGED <<now, cartContents, heldContents, priced, agent, apiVars, uiVars>>

TamperField ==
  /\ phase = "signed"
  /\ \E path \in AtomPaths(heldContents), w \in TamperValues :
       /\ At(heldContents, path) # w
       /\ heldContents' = Replace(heldContents, path, w)
  /\ phase' = "tampered"
  /\ UNCHANGED <<now, cartContents, jwt, priced, agent, apiVars, uiVars>>

\* the token with one of its claims rewritten and its signature left as it
\* was
WithClaim(token, k, v) ==
  [token EXCEPT !.kv[2].v.kv =
     [i \in DOMAIN @ |-> IF @[i].k = k THEN KV(k, v) ELSE @[i]]]

\* tokens that were not signed with the key: one made with another key, one
\* whose expiry was moved past the end of the clock
ForgedTokens(token) ==
  { Jwt(Header(token), Payload(token), "another-key"),
    WithClaim(token, "exp", JNum(MaxNow + 1)) }

\* somebody puts a token of their own in the place of the merchant's
ForgeToken ==
  /\ phase = "signed"
  /\ jwt' \in ForgedTokens(jwt)
  /\ phase' = "forged"
  /\ UNCHANGED <<now, cartContents, heldContents, priced, agent, apiVars, uiVars>>

Tick ==
  /\ \E dt \in TickSteps :
       /\ now + dt <= MaxNow
       /\ now' = now + dt

IntegrityTick == Tick /\ UNCHANGED <<integrityVars, apiVars, uiVars>>

IntegrityNext == SignCart \/ TamperField \/ ForgeToken \/ IntegrityTick

SpecIntegrity == IntegrityInit /\ [][IntegrityNext]_vars

(***************************************************************************)
(* C2  Tamper detection: once any single field of signed cart contents has *)
(* been changed, the digest recomputed over the changed contents differs   *)
(* from the cart_hash in the token, while verifyJWT of the token alone     *)
(* still succeeds (before the token expires).                              *)
(***************************************************************************)
C2_TamperDetected ==
  (phase = "tampered" /\ now < Get(Payload(jwt), "exp").n) =>
     /\ JStr(hashObject(heldContents)) # Get(Payload(jwt), "cart_hash")
     /\ verifyJWT(jwt, now).ok

\* the instant the token was issued
IssuedAt(token) == Get(Payload(token), "iat").n

(***************************************************************************)
(* C12. A Cart token made by signCartMandate verifies at every instant     *)
(* earlier than 15 minutes after it was issued, and fails to verify at     *)
(* every instant from then on.                                             *)
(***************************************************************************)
C12_VerifiesUntilExpiry ==
  phase \in {"signed", "tampered"} =>
     (verifyJWT(jwt, now).ok <=> now < IssuedAt(jwt) + CartTokenTtl)

\* a token issued after the clock had moved, looked at when its 15 minutes
\* are over
C12_Witness ==
  /\ phase = "signed"
  /\ IssuedAt(jwt) > 0
  /\ now >= IssuedAt(jwt) + CartTokenTtl
  /\ ~verifyJWT(jwt, now).ok

\* the failure value names a signature that does not validate
IsIntegrityError(result) ==
  ~result.ok /\ result.error = "JWT verification failed: " \o SIGNATURE_FAILED

\* the failure value names an expiry that has passed
IsExpiredError(result) ==
  ~result.ok /\ result.error = "JWT verification failed: " \o EXPIRED

(***************************************************************************)
(* C14. verifyJWT fails in two ways a caller can tell apart by the value   *)
(* thrown: one for a token whose signature does not validate against the   *)
(* key (whether or not it has expired), one for a token whose signature    *)
(* validates and whose expiry has passed; a token with neither defect      *)
(* verifies.                                                               *)
(***************************************************************************)
C14_TwoFailures ==
  phase # "built" =>
    LET result == verifyJWT(jwt, now)
        expired == Get(Payload(jwt), "exp").n <= now
    IN /\ ~SignatureValid(jwt) =>
            IsIntegrityError(result) /\ ~IsExpiredError(result)
       /\ (SignatureValid(jwt) /\ expired) =>
            IsExpiredError(result) /\ ~IsIntegrityError(result)
       /\ (SignatureValid(jwt) /\ ~expired) => result.ok

\* a token made with another key, looked at after the expiry it states
C14_Witness ==
  /\ phase = "forged"
  /\ ~SignatureValid(jwt)
  /\ Get(Payload(jwt), "exp").n <= now
  /\ IsIntegrityError(verifyJWT(jwt, now))

(***************************************************************************)
(* The A2A envelope (lib/a2a-protocol).                                    *)
(***************************************************************************)
SeqOf(S, n) == UNION {[1..m -> S] : m \in 0..n}

\* obj[k] = v of JavaScript: an own property keeps its place, a new one is
\* added last
SetKey(o, k, v) ==
  IF HasKey(o, k)
    THEN [o EXCEPT !.kv = [i \in 1..Len(o.kv) |->
                             IF o.kv[i].k = k THEN KV(k, v) ELSE o.kv[i]]]
    ELSE [o EXCEPT !.kv = Append(o.kv, KV(k, v))]

Elems(arr) == [i \in 1..Len(arr.kv) |-> arr.kv[i].v]

TextPart(text) == JObj(<<KV("type", JStr("text")), KV("text", JStr(text))>>)
DataPart(key, data) ==
  JObj(<<KV("type", JStr("data")), KV("data", JObj(<<KV(key, data)>>))>>)

\* new A2AMessageBuilder(): generateId() and the timestamp
NewMessage(t, r) ==
  JObj(<<KV("message_id", JStr("msg-" \o ToString(t) \o "-" \o ToString(r))),
         KV("role", JStr("agent")),
         KV("parts", JArr(<<>>)),
         KV("timestamp", JDate(t))>>)

PushPart(m, part) ==
  SetKey(m, "parts", JArr(Append(Elems(Get(m, "parts")), part)))

addText(m, text) == PushPart(m, TextPart(text))
\* A mutant of addData: the part is pushed twice
addDataTwice(m, key, data) ==
  PushPart(PushPart(m, DataPart(key, data)), DataPart(key, data))
addData(m, key, data) == PushPart(m, DataPart(key, data))
\* A mutant of setContextId: the envelope keeps no context_id
setContextIdNever(m, context_id) == m
setContextId(m, context_id) == SetKey(m, "context_id", context_id)

(***************************************************************************)
(* extractDataFromMessage: the value under key in the first data part      *)
(* whose data[key] is truthy, null when there is none.  It throws when     *)
(* message.parts cannot be iterated or a data part has no data object.     *)
(***************************************************************************)
Returned(v) == [threw |-> FALSE, value |-> v]
Threw == [threw |-> TRUE, value |-> JUndef]

RECURSIVE ExtractFromParts(_, _)
ExtractFromParts(parts, key) ==
  IF parts = <<>> THEN Returned(JNull)
  ELSE IF Get(Head(parts), "type") = JStr("data")
    THEN IF Get(Head(parts), "data").t \in {"undef", "null"} THEN Threw
         ELSE IF Truthy(Get(Get(Head(parts), "data"), key))
           THEN Returned(Get(Get(Head(parts), "data"), key))
         ELSE ExtractFromParts(Tail(parts), key)
  ELSE ExtractFromParts(Tail(parts), key)

extractDataFromMessage(message, key) ==
  IF Get(message, "parts").t # "arr" THEN Threw
  ELSE ExtractFromParts(Elems(Get(message, "parts")), key)

(***************************************************************************)
(* Texts.  A text is known by its lower-case words, which is what          *)
(* toLowerCase().includes(...) reads.                                      *)
(***************************************************************************)
Words(text) ==
  CASE text = "Get available payment methods for user" ->
         <<"get", "available", "payment", "methods", "for", "user">>
    [] text = "Find vacation packages matching user's intent" ->
         <<"find", "vacation", "packages", "matching", "user's", "intent">>
    [] text = "which payment" -> <<"which", "payment">>
    [] text = "method do I have" -> <<"method", "do", "i", "have">>
    [] text = "hello" -> <<"hello">>
    [] OTHER -> <<>>

RECURSIVE JoinWords(_)
JoinWords(texts) ==
  IF texts = <<>> THEN <<>> ELSE Words(Head(texts)) \o JoinWords(Tail(texts))

\* extractTextFromMessage: the text parts, in part order, joined by " "
extractTextFromMessage(message) ==
  LET parts == Elems(Get(message, "parts"))
      IsText(p) == Get(p, "type") = JStr("text")
      texts == SelectSeq(parts, IsText)
  IN JoinWords([i \in 1..Len(texts) |-> Get(texts[i], "text").s])

\* text.toLowerCase().includes("payment method")
IncludesPaymentMethod(words) ==
  \E i \in 1..(Len(words) - 1) :
     words[i] = "payment" /\ words[i + 1] \in {"method", "methods"}

(***************************************************************************)
(* A value after JSON.stringify / JSON.parse, as every HTTP body goes: a   *)
(* member whose value is undefined is gone, an undefined array element is  *)
(* null.                                                                   *)
(***************************************************************************)
RECURSIVE Wire(_)
Wire(v) ==
  CASE v.t = "obj" ->
         LET Defined(m) == m.v.t # "undef"
             members == SelectSeq(v.kv, Defined)
         IN [v EXCEPT !.kv = [i \in 1..Len(members) |-> KV(members[i].k, Wire(members[i].v))]]
    [] v.t = "arr" ->
         [v EXCEPT !.kv = [i \in 1..Len(v.kv) |->
                             KV("", IF v.kv[i].v.t = "undef" THEN JNull
                                    ELSE Wire(v.kv[i].v))]]
    [] OTHER -> v

(***************************************************************************)
(* What a handler did: the HTTP status and JSON body it answered with, how *)
(* often it invoked the matcher and how many carts it signed.              *)
(***************************************************************************)
Answer(status, body, matcherCalls, signed) ==
  [status |-> status, body |-> Wire(body), matcherCalls |-> matcherCalls,
   signed |-> signed]

ErrorBody(error) == JObj(<<KV("error", JStr(error))>>)
ErrorDetails(error, details) ==
  JObj(<<KV("error", JStr(error)), KV("details", JStr(details))>>)

TaskBody(t, result) ==
  JObj(<<KV("task", JObj(<<KV("id", JStr("task-" \o ToString(t))),
                           KV("status", JStr("completed")),
                           KV("result", result)>>))>>)

TRUSTED == "trusted_shopping_agent"

\* A mutant of Authorized: any caller identity is accepted when present
AuthorizedIfPresent(shoppingAgentId) == Truthy(shoppingAgentId)

\* shoppingAgentId !== "trusted_shopping_agent" is false
Authorized(shoppingAgentId) == shoppingAgentId = JStr(TRUSTED)

(***************************************************************************)
(* Credentials Provider.                                                   *)
(***************************************************************************)

CredentialsFailed(details) ==
  Answer(500, ErrorDetails("Failed to process credentials provider request",
                           details), 0, 0)

CredentialsProviderOver(methods, a2aMessage, t, r) ==
  LET shoppingAgentId == extractDataFromMessage(a2aMessage, "shopping_agent_id")
      action == extractDataFromMessage(a2aMessage, "action")
      text == extractTextFromMessage(a2aMessage)
      paymentMandate ==
        extractDataFromMessage(a2aMessage, "ap2.mandates.PaymentMandate")
      reply == setContextId(NewMessage(t, r), Get(a2aMessage, "context_id"))
  IN IF shoppingAgentId.threw THEN CredentialsFailed("TypeError")
     ELSE IF ~Authorized(shoppingAgentId.value)
       THEN Answer(401, ErrorBody("Unauthorized shopping agent"), 0, 0)
     ELSE IF action.threw THEN CredentialsFailed("TypeError")
     ELSE IF action.value = JStr("get_payment_methods")
             \/ IncludesPaymentMethod(text)
       THEN Answer(200, TaskBody(t,
              addData(addText(reply,
                  "Here are your available payment methods from your wallet."),
                "payment_methods", methods)), 0, 0)
     ELSE IF action.value = JStr("initiate_payment")
       THEN IF paymentMandate.threw THEN CredentialsFailed("TypeError")
            ELSE IF ~Truthy(paymentMandate.value)
              THEN CredentialsFailed("Payment mandate required for payment initiation")
            ELSE Answer(200, TaskBody(t,
                   addData(addText(reply, "Payment mandate received and verified."),
                     "payment_status", JStr("ready"))), 0, 0)
     ELSE Answer(200, TaskBody(t, addText(reply, "Unknown action requested.")), 0, 0)

\* the handler reads the array of its module
CredentialsProvider(a2aMessage, t, r) ==
  CredentialsProviderOver(wallet, a2aMessage, t, r)

\* A mutant of WalletAfter: the handler takes the first entry off the list
WalletShifted(a2aMessage) ==
  IF Len(wallet.kv) > 1 THEN JArr(Tail(Elems(wallet))) ELSE wallet

\* USER_PAYMENT_METHODS after the handler has run: the handler reads the
\* array and hands it to addData; nothing writes to it
WalletAfter(a2aMessage) == wallet

(***************************************************************************)
(* Merchant Agent.  The matcher is an external model: what it does is one  *)
(* of LlmReplies.                                                          *)
(***************************************************************************)
LlmReply(outcome, ids) == [outcome |-> outcome, ids |-> ids]

LlmReplies ==
  { LlmReply("no_api_key", <<>>),
    LlmReply("throws", <<>>),
    LlmReply("unparsable", <<>>),
    LlmReply("json", <<>>),
    LlmReply("json", <<"vac-002">>),
    LlmReply("json", <<"vac-003", "vac-001">>),
    LlmReply("json", <<"vac-001", "vac-001">>),
    LlmReply("json", <<"vac-999", "vac-004">>),
    LlmReply("json", <<"vac-004", "vac-003", "vac-002", "vac-001">>) }

\* A mutant of Slice: nothing is cut off
SliceAll(seq, n) == seq

\* Array.prototype.slice(0, n)
Slice(seq, n) == SubSeq(seq, 1, IF Len(seq) < n THEN Len(seq) ELSE n)

MatchLimit == 3

InCatalog(id) == \E i \in 1..Len(VACATION_PACKAGES) : VACATION_PACKAGES[i].id = id
Find(id) ==
  VACATION_PACKAGES[CHOOSE i \in 1..Len(VACATION_PACKAGES) :
                      VACATION_PACKAGES[i].id = id]

\* A mutant of findMatchingProducts: no packages when the matcher fails
findMatchingProductsOrNone(llm) ==
  IF llm.outcome \in {"no_api_key", "throws", "unparsable"}
    THEN <<>>
    ELSE LET known == SelectSeq(llm.ids, InCatalog)
         IN Slice([i \in 1..Len(known) |-> Find(known[i])], MatchLimit)

findMatchingProducts(llm) ==
  IF llm.outcome \in {"no_api_key", "throws", "unparsable"}
    THEN Slice(VACATION_PACKAGES, MatchLimit)
    ELSE LET known == SelectSeq(llm.ids, InCatalog)
         IN Slice([i \in 1..Len(known) |-> Find(known[i])], MatchLimit)

\* the random draws of a Merchant call, one per cart and then one for the
\* reply's message id: all alike, or each the next of Rands in turn
InTurn(n) == [i \in 1..n |-> ((i - 1) % MaxRand) + 1]

MerchantDraws(llm) ==
  LET n == Len(findMatchingProducts(llm)) + 1
  IN {[i \in 1..n |-> r] : r \in Rands} \cup {InTurn(n)}

MerchantFailed ==
  Answer(500, ErrorDetails("Failed to process merchant request", "TypeError"), 0, 0)

Merchant(a2aMessage, t, llm, draws) ==
  LET shoppingAgentId == extractDataFromMessage(a2aMessage, "shopping_agent_id")
      intentMandate ==
        extractDataFromMessage(a2aMessage, "ap2.mandates.IntentMandate")
      matchingProducts == findMatchingProducts(llm)
      cartMandates ==
        [i \in 1..Len(matchingProducts) |->
           BuildCartMandate(matchingProducts[i], t, draws[i])]
      reply == setContextId(NewMessage(t, draws[Len(matchingProducts) + 1]),
                            Get(a2aMessage, "context_id"))
  IN IF shoppingAgentId.threw THEN MerchantFailed
     ELSE IF ~Authorized(shoppingAgentId.value)
       THEN Answer(401, ErrorBody("Unauthorized shopping agent"), 0, 0)
     ELSE IF intentMandate.threw THEN MerchantFailed
     ELSE Answer(200, TaskBody(t,
            addData(addText(reply, "Found " \o ToString(Len(cartMandates))
                              \o " vacation packages matching your request."),
              "cart_mandates", JArr(cartMandates))),
            1, Len(cartMandates))

(***************************************************************************)
(* Request envelopes of SpecAgents: a bounded number of parts from a pool.  *)
(***************************************************************************)
IntentMandate(description, t) ==
  JObj(<<KV("user_cart_confirmation_required", JBool(TRUE)),
         KV("natural_language_description", JStr(description)),
         KV("requires_refundability", JBool(TRUE)),
         KV("intent_expiry", JDate(t))>>)

Envelope(context_id, parts) ==
  JObj(<<KV("message_id", JStr("msg-request")),
         KV("role", JStr("agent")),
         KV("parts", JArr(parts)),
         KV("timestamp", JDate(0)),
         KV("context_id", JStr(context_id))>>)

IdentityParts ==
  { DataPart("shopping_agent_id", JStr(TRUSTED)),
    DataPart("shopping_agent_id", JStr("evil_agent")),
    DataPart("shopping_agent_id", JStr("")) }

MerchantParts ==
  IdentityParts \cup
  { TextPart("Find vacation packages matching user's intent"),
    DataPart("ap2.mandates.IntentMandate", IntentMandate("beach", 0)) }

CredentialsParts ==
  { DataPart("shopping_agent_id", JStr(TRUSTED)),
    DataPart("shopping_agent_id", JStr("evil_agent")),
    TextPart("which payment"),
    TextPart("method do I have"),
    TextPart("Get available payment methods for user"),
    DataPart("action", JStr("get_payment_methods")),
    DataPart("action", JStr("initiate_payment")),
    DataPart("ap2.mandates.PaymentMandate", JObj(<<KV("user_authorization", JStr("x"))>>)) }

(***************************************************************************)
(* SpecAgents: the two peer agents answer request envelopes.               *)
(***************************************************************************)
AgentsInit ==
  /\ now = 0
  /\ UiIdle
  /\ IntegrityIdle
  /\ ApiIdle

\* a request envelope reaches an agent
Arrive(handler, request) ==
  /\ call = NoCall
  /\ call' = [handler |-> handler, request |-> request, answered |-> FALSE]
  /\ UNCHANGED <<kept, wallet, session>>

\* the handler has run: its answer goes out
Respond(response) ==
  call' = [handler |-> call.handler, request |-> call.request,
           answered |-> TRUE, at |-> now, response |-> response]
  /\ UNCHANGED <<kept, session>>

Handling(handler) == call # NoCall /\ call.handler = handler /\ ~call.answered
Answered(handler) == call # NoCall /\ call.handler = handler /\ call.answered

MerchantArrive ==
  /\ \E parts \in SeqOf(MerchantParts, MaxMerchantParts) :
       Arrive("merchant", Envelope("ctx-1", parts))
  /\ UNCHANGED <<now, integrityVars, uiVars>>

MerchantRespond ==
  /\ Handling("merchant")
  /\ \E llm \in LlmReplies : \E draws \in MerchantDraws(llm) :
       call' = [handler |-> "merchant", request |-> call.request,
                answered |-> TRUE, at |-> now, met |-> llm,
                response |-> Merchant(call.request, now, llm, draws)]
  /\ UNCHANGED <<kept, wallet, session>>
  /\ UNCHANGED <<now, integrityVars, uiVars>>

CredentialsArrive ==
  /\ \E parts \in SeqOf(CredentialsParts, MaxCredentialsParts) :
       Arrive("credentials", Envelope("ctx-1", parts))
  /\ UNCHANGED <<now, integrityVars, uiVars>>

CredentialsRespond ==
  /\ Handling("credentials")
  /\ \E r \in Rands : Respond(CredentialsProvider(call.request, now, r))
  /\ wallet' = WalletAfter(call.request)
  /\ UNCHANGED <<now, integrityVars, uiVars>>

\* the exchange is over; the agents keep nothing of it
AgentsClose ==
  /\ call # NoCall /\ call.answered
  /\ call' = NoCall
  /\ UNCHANGED <<now, integrityVars, kept, wallet, session, uiVars>>

AgentsTick ==
  /\ now + CartExpiryTtl <= MaxNow
  /\ now' = now + CartExpiryTtl
  /\ UNCHANGED <<integrityVars, apiVars, uiVars>>

AgentsNext ==
  \/ MerchantArrive \/ MerchantRespond
  \/ CredentialsArrive \/ CredentialsRespond
  \/ AgentsClose \/ AgentsTick

SpecAgents == AgentsInit /\ [][AgentsNext]_vars

(***************************************************************************)
(* VacationBookingAgent (lib/ai-agent): the conversation history.          *)
(***************************************************************************)
SYSTEM_PROMPT == "You are an AI vacation booking assistant"

Chat(class, content) == [class |-> class, content |-> content]

\* A mutant of GetType: an AIMessage is tagged with the role name of the
\* chat API
GetTypeAsRole(msg) ==
  CASE msg.class = "SystemMessage" -> "system"
    [] msg.class = "HumanMessage" -> "human"
    [] msg.class = "AIMessage" -> "assistant"

\* msg._getType()
GetType(msg) ==
  CASE msg.class = "SystemMessage" -> "system"
    [] msg.class = "HumanMessage" -> "human"
    [] msg.class = "AIMessage" -> "ai"

\* serializeHistory
serializeHistory(history) ==
  JArr([i \in 1..Len(history) |->
          JObj(<<KV("type", JStr(GetType(history[i]))),
                 KV("content", history[i].content)>>)])

\* A mutant of KnownType: every type tag is taken
KnownTypeAny(m) == TRUE

\* deserializeHistory: throws on an unknown type tag
KnownType(m) == Get(m, "type") \in {JStr("system"), JStr("human"), JStr("ai")}

deserializeHistory(serialized) ==
  LET items == Elems(serialized)
  IN IF \E i \in 1..Len(items) : ~KnownType(items[i]) THEN Threw
     ELSE Returned([i \in 1..Len(items) |->
            Chat(CASE Get(items[i], "type") = JStr("system") -> "SystemMessage"
                   [] Get(items[i], "type") = JStr("human") -> "HumanMessage"
                   [] OTHER -> "AIMessage",
                 Get(items[i], "content"))])

\* new VacationBookingAgent(existingHistory)
NewAgent(existingHistory) ==
  IF existingHistory # <<>> THEN existingHistory
  ELSE <<Chat("SystemMessage", JStr(SYSTEM_PROMPT))>>

\* agent.chat(userMessage) when the model answers reply
ChatTurn(history, userMessage, reply) ==
  history \o <<Chat("HumanMessage", userMessage), Chat("AIMessage", JStr(reply))>>

RECURSIVE JoinTexts(_, _)
JoinTexts(texts, sep) ==
  IF texts = <<>> THEN ""
  ELSE IF Len(texts) = 1 THEN Head(texts)
  ELSE Head(texts) \o sep \o JoinTexts(Tail(texts), sep)

\* the human turns of the history, joined by " | "
ConversationContext(history) ==
  LET IsHuman(m) == GetType(m) = "human"
      humans == SelectSeq(history, IsHuman)
  IN JoinTexts([i \in 1..Len(humans) |-> humans[i].content.s], " | ")

(***************************************************************************)
(* Shopping Agent API (pages/api/shopping-agent).                          *)
(***************************************************************************)
\* a.b.c of JavaScript throws when a property of undefined or null is read
RECURSIVE DigThrows(_, _)
DigThrows(v, keys) ==
  IF keys = <<>> THEN FALSE
  ELSE v.t \in {"undef", "null"} \/ DigThrows(Get(v, Head(keys)), Tail(keys))

\* a || b of JavaScript
Or(a, b) == IF Truthy(a) THEN a ELSE b

\* parts.find(p => p.type === "data" && p.data[key])?.data[key] || []
FindData(message, key) ==
  LET parts == Elems(Get(message, "parts"))
      Hit(p) == Get(p, "type") = JStr("data") /\ Truthy(Get(Get(p, "data"), key))
      hits == SelectSeq(parts, Hit)
  IN IF hits = <<>> THEN JArr(<<>>) ELSE Get(Get(hits[1], "data"), key)

\* what the handler did: status and body of its answer, the envelopes it
\* sent to its peers, the Payment mandates it signed, the calls of
\* agent.chat it made
ShoppingAnswer(status, body, sent, signed) ==
  [status |-> status, body |-> Wire(body), sent |-> sent, signed |-> signed,
   chats |-> 0]

\* the handler's answer after await agent.chat(message)
Chatted(answer) == [answer EXCEPT !.chats = 1]

\* a handler that would answer its failures with empty lists
ShoppingFailedQuietly(details, sent) ==
  ShoppingAnswer(200, JObj(<<KV("cart_mandates", JArr(<<>>)),
                             KV("payment_methods", JArr(<<>>))>>), sent, <<>>)

ShoppingFailed(details, sent) ==
  ShoppingAnswer(500, ErrorDetails("Failed to process request", details), sent, <<>>)

DETAILS_ID == <<"contents", "payment_request", "details", "id">>
DETAILS_TOTAL == <<"contents", "payment_request", "details", "total">>

\* A mutant of PaymentDetailsTotal: the total is added up again from the
\* display items
PaymentDetailsTotalRecomputed(cartMandate) ==
  LET total == Dig(cartMandate, DETAILS_TOTAL)
      items == Elems(Dig(cartMandate,
                         <<"contents", "payment_request", "details", "display_items">>))
      Sum[i \in 0..Len(items)] ==
        IF i = 0 THEN 0 ELSE Sum[i - 1] + Dig(items[i], <<"amount", "value">>).n
  IN SetKey(total, "amount",
            SetKey(Get(total, "amount"), "value", JNum(Sum[Len(items)])))

\* payment_details_total: cartMandate.contents.payment_request.details.total
PaymentDetailsTotal(cartMandate) == Dig(cartMandate, DETAILS_TOTAL)

\* A mutant of PaymentMandateId: no random suffix
PaymentMandateIdByClock(t, r) == "pm-" \o ToString(t)

\* `pm-${Date.now()}-${Math.random().toString(36).slice(2, 11)}`
PaymentMandateId(t, r) == "pm-" \o ToString(t) \o "-" \o ToString(r)

PaymentMandateContents(cartMandate, paymentMethod, t, r) ==
  JObj(<<
    KV("payment_mandate_id", JStr(PaymentMandateId(t, r))),
    KV("payment_details_id", Dig(cartMandate, DETAILS_ID)),
    KV("payment_details_total", PaymentDetailsTotal(cartMandate)),
    KV("payment_response", JObj(<<
      KV("request_id", Dig(cartMandate, DETAILS_ID)),
      KV("method_name", Get(paymentMethod, "type")),
      KV("details", JObj(<<KV("payment_method_id", Get(paymentMethod, "id"))>>)),
      KV("payer_email", JStr("user@example.com")),
      KV("payer_name", JStr("Demo User"))>>)),
    KV("merchant_agent", Dig(cartMandate, <<"contents", "merchant_name">>)),
    KV("timestamp", JDate(t))>>)

\* A mutant of CreatePaymentMandate: the test for the two inputs is left out
CreatePaymentMandateUnchecked(body, context_id, t, r) ==
  LET data == Get(body, "data")
      cartMandate == Get(data, "cartMandate")
      paymentMethod == Get(data, "paymentMethod")
      contents == PaymentMandateContents(cartMandate, paymentMethod, t, r)
      paymentMandate ==
        JObj(<<KV("payment_mandate_contents", contents),
               KV("user_authorization", signPaymentMandate(contents, t))>>)
  IN IF data.t \in {"undef", "null"} THEN ShoppingFailed("TypeError", <<>>)
     ELSE IF DigThrows(cartMandate, DETAILS_ID) THEN ShoppingFailed("TypeError", <<>>)
     ELSE ShoppingAnswer(200,
            JObj(<<KV("payment_mandate", paymentMandate),
                   KV("context_id", context_id)>>),
            <<>>, <<paymentMandate>>)

\* action === "create_payment_mandate"
CreatePaymentMandate(body, context_id, t, r) ==
  LET data == Get(body, "data")
      cartMandate == Get(data, "cartMandate")
      paymentMethod == Get(data, "paymentMethod")
      contents == PaymentMandateContents(cartMandate, paymentMethod, t, r)
      paymentMandate ==
        JObj(<<KV("payment_mandate_contents", contents),
               KV("user_authorization", signPaymentMandate(contents, t))>>)
  IN IF data.t \in {"undef", "null"} THEN ShoppingFailed("TypeError", <<>>)
     ELSE IF ~Truthy(cartMandate) \/ ~Truthy(paymentMethod)
       THEN ShoppingAnswer(400,
              ErrorBody("Cart mandate and payment method required"), <<>>, <<>>)
     ELSE IF DigThrows(cartMandate, DETAILS_ID) THEN ShoppingFailed("TypeError", <<>>)
     ELSE ShoppingAnswer(200,
            JObj(<<KV("payment_mandate", paymentMandate),
                   KV("context_id", context_id)>>),
            <<>>, <<paymentMandate>>)

\* action === "get_payment_methods"
GetPaymentMethods(context_id, t, ext) ==
  LET cpMessage ==
        addData(addData(addText(setContextId(NewMessage(t, ext.r), context_id),
            "Get available payment methods for user"),
          "action", JStr("get_payment_methods")),
          "shopping_agent_id", JStr(TRUSTED))
      sent == <<[to |-> "credentials", envelope |-> Wire(cpMessage)]>>
      cpResult == IF ext.peerFails THEN CredentialsFailed("Error").body
                  ELSE CredentialsProvider(Wire(cpMessage), t, ext.peer).body
      cpA2AResponse == Dig(cpResult, <<"task", "result">>)
  IN IF ~ext.peerUp THEN ShoppingFailed("fetch failed", sent)
     ELSE IF DigThrows(cpResult, <<"task", "result", "parts">>)
       THEN ShoppingFailed("TypeError", sent)
     ELSE ShoppingAnswer(200,
            JObj(<<KV("payment_methods", FindData(cpA2AResponse, "payment_methods")),
                   KV("context_id", context_id)>>),
            sent, <<>>)

IntentTtl == 1440     \* 24 * 60 * 60 * 1000 ms

\* aiMessage.replace(/CREATE_INTENT_MANDATE/g, "").trim()
CleanResponse(aiMessage) ==
  IF aiMessage = "CREATE_INTENT_MANDATE Here are some options"
    THEN "Here are some options"
    ELSE aiMessage

\* conversationHistory ? deserializeHistory(conversationHistory) : undefined
RestoreHistory(history) ==
  IF Truthy(history) THEN deserializeHistory(history)
  ELSE Returned(<<>>)

\* action === "search_vacations"
SearchVacations(body, context_id, t, ext) ==
  LET message == Get(body, "message")
      restored == RestoreHistory(Get(body, "conversationHistory"))
      agentHistory == ChatTurn(NewAgent(restored.value), message, ext.chat.text)
      conversationContext == ConversationContext(agentHistory)
      intentMandate ==
        SetKey(IntentMandate("", t + IntentTtl), "natural_language_description",
               Or(JStr(conversationContext), message))
      merchantMessage ==
        addData(addData(addText(setContextId(NewMessage(t, ext.r), context_id),
            "Find vacation packages matching user's intent"),
          "ap2.mandates.IntentMandate", intentMandate),
          "shopping_agent_id", JStr(TRUSTED))
      sent == <<[to |-> "merchant", envelope |-> Wire(merchantMessage)]>>
      merchantResult == IF ext.peerFails THEN MerchantFailed.body
                        ELSE Merchant(Wire(merchantMessage), t, ext.llm, ext.draws).body
      merchantA2AResponse == Dig(merchantResult, <<"task", "result">>)
  IN IF restored.threw THEN ShoppingFailed("Unknown message type", <<>>)
     ELSE Chatted(
     IF ext.chat.outcome = "throws" THEN ShoppingFailed("model error", <<>>)
     ELSE IF ~ext.peerUp THEN ShoppingFailed("fetch failed", sent)
     ELSE IF DigThrows(merchantResult, <<"task", "result", "parts">>)
       THEN ShoppingFailed("TypeError", sent)
     ELSE ShoppingAnswer(200,
            JObj(<<KV("response", JStr(CleanResponse(ext.chat.text))),
                   KV("intent_mandate", intentMandate),
                   KV("cart_mandates", FindData(merchantA2AResponse, "cart_mandates")),
                   KV("context_id", context_id),
                   KV("conversationHistory", serializeHistory(agentHistory))>>),
            sent, <<>>))

\* Default: just get the AI response
DefaultChat(body, context_id, ext) ==
  LET restored == RestoreHistory(Get(body, "conversationHistory"))
      agentHistory ==
        ChatTurn(NewAgent(restored.value), Get(body, "message"), ext.chat.text)
  IN IF restored.threw THEN ShoppingFailed("Unknown message type", <<>>)
     ELSE Chatted(
     IF ext.chat.outcome = "throws" THEN ShoppingFailed("model error", <<>>)
     ELSE ShoppingAnswer(200,
            JObj(<<KV("response", JStr(CleanResponse(ext.chat.text))),
                   KV("context_id", context_id),
                   KV("conversationHistory", serializeHistory(agentHistory))>>),
            <<>>, <<>>))

\* the handler of pages/api/shopping-agent
ShoppingAgent(req, t, ext) ==
  LET body == req.body
      action == Get(body, "action")
      context_id == Or(Get(body, "contextId"), JStr("ctx-" \o ToString(t)))
  IN IF req.method # "POST"
       THEN ShoppingAnswer(405, ErrorBody("Method not allowed"), <<>>, <<>>)
     ELSE IF ~ext.apiKey
       THEN ShoppingAnswer(500,
              ErrorDetails("OPENROUTER_API_KEY not configured",
                           "Get your API key"), <<>>, <<>>)
     ELSE IF ~Truthy(Get(body, "message")) /\ ~Truthy(action)
       THEN ShoppingAnswer(400, ErrorBody("Message or action is required"),
                           <<>>, <<>>)
     ELSE IF action = JStr("search_vacations")
       THEN SearchVacations(body, context_id, t, ext)
     ELSE IF action = JStr("get_payment_methods")
       THEN GetPaymentMethods(context_id, t, ext)
     ELSE IF action = JStr("create_payment_mandate")
       THEN CreatePaymentMandate(body, context_id, t, ext.r)
     ELSE DefaultChat(body, context_id, ext)

\* every property name that occurs anywhere in a JSON value
RECURSIVE KeysDeep(_)
KeysDeep(v) ==
  IF v.t \notin {"obj", "arr"} THEN {}
  ELSE UNION {(IF v.t = "obj" THEN {v.kv[i].k} ELSE {}) \cup KeysDeep(v.kv[i].v)
              : i \in 1..Len(v.kv)}

\* the values the data parts of an envelope hold under key, in part order
ValuesUnder(envelope, key) ==
  LET parts == Elems(Get(envelope, "parts"))
      Holds(p) == Get(p, "type") = JStr("data") /\ HasKey(Get(p, "data"), key)
      holders == SelectSeq(parts, Holds)
  IN [i \in 1..Len(holders) |-> Get(Get(holders[i], "data"), key)]

\* The envelope does not present the trusted caller identity: no data part
\* holds it, or the first identity presented is another (non-empty) value.
Untrusted(envelope) ==
  LET ids == ValuesUnder(envelope, "shopping_agent_id")
  IN \/ \A i \in 1..Len(ids) : ids[i] # JStr(TRUSTED)
     \/ (ids # <<>> /\ ids[1] # JStr(TRUSTED) /\ ids[1] # JStr(""))

Rejected(response) ==
  /\ response.status # 200
  /\ Truthy(Get(response.body, "error"))
  /\ KeysDeep(response.body) \cap
       {"task", "cart_mandates", "payment_methods", "payment_status"} = {}
  /\ response.matcherCalls = 0
  /\ response.signed = 0

TrustedCaller(envelope) ==
  extractDataFromMessage(envelope, "shopping_agent_id") = Returned(JStr(TRUSTED))

\* the parts of the envelope an agent answered with, and the carts in it
ReturnedParts == Elems(Dig(call.response.body, <<"task", "result", "parts">>))
ReturnedCarts ==
  Elems(FindData(Dig(call.response.body, <<"task", "result">>), "cart_mandates"))

PartsOfType(parts, type) ==
  LET Is(p) == Get(p, "type") = JStr(type) IN SelectSeq(parts, Is)

\* the name of the package a cart is for: the label of its first line item
PackageName(cartMandate) ==
  Get(Elems(Dig(cartMandate, <<"contents", "payment_request", "details",
                               "display_items">>))[1], "label").s

\* the carts are for these packages, one each, in this order
CartsFor(carts, products) ==
  /\ Len(carts) = Len(products)
  /\ \A i \in 1..Len(carts) : PackageName(carts[i]) = products[i].name

(***************************************************************************)
(* C15. For a trusted caller the Merchant Agent answers with one cart for  *)
(* each package the matcher returned, in the matcher's order and never     *)
(* more than 3, in an envelope of exactly one text part and exactly one    *)
(* data part, which is keyed cart_mandates.                                *)
(***************************************************************************)
C15_OneCartPerMatch ==
  (Answered("merchant") /\ TrustedCaller(call.request)) =>
     /\ call.response.status = 200
     /\ CartsFor(ReturnedCarts, findMatchingProducts(call.met))
     /\ call.met.outcome = "json" =>
          \E pick \in SUBSET {i \in 1..Len(call.met.ids) : InCatalog(call.met.ids[i])} :
             LET Picked(i) == i \in pick
                 ids == SelectSeq([i \in 1..Len(call.met.ids) |-> i], Picked)
             IN CartsFor(ReturnedCarts, [i \in 1..Len(ids) |-> Find(call.met.ids[ids[i]])])
     /\ Len(ReturnedCarts) <= 3
     /\ Len(ReturnedParts) = 2
     /\ Len(PartsOfType(ReturnedParts, "text")) = 1
     /\ Len(PartsOfType(ReturnedParts, "data")) = 1
     /\ HasKey(Get(PartsOfType(ReturnedParts, "data")[1], "data"), "cart_mandates")

\* the matcher named four packages, not in catalog order: three carts, in
\* the matcher's order
C15_Witness ==
  /\ Answered("merchant") /\ TrustedCaller(call.request)
  /\ Len(call.met.ids) = 4
  /\ Len(ReturnedCarts) = 3
  /\ PackageName(ReturnedCarts[1]) = VACATION_PACKAGES[4].name

(***************************************************************************)
(* C16. Every cart the Merchant Agent returns has a total greater than 0   *)
(* and a merchant_authorization that verifies at the time of the answer,   *)
(* whose cart_id is the id of the contents returned and whose cart_hash is *)
(* the digest of the contents returned.                                    *)
(***************************************************************************)
C16_ReturnedCartsAreSigned ==
  Answered("merchant") =>
     \A i \in 1..Len(ReturnedCarts) :
        LET cart == ReturnedCarts[i]
            contents == Get(cart, "contents")
            verified == verifyJWT(Get(cart, "merchant_authorization"), call.at)
        IN /\ Dig(cart, DETAILS_TOTAL \o <<"amount", "value">>).n > 0
           /\ verified.ok
           /\ Get(verified.payload, "cart_id") = Get(contents, "id")
           /\ Get(verified.payload, "cart_hash") = JStr(hashObject(contents))

\* three carts came back, one of them for a package without a picture,
\* whose image_url does not survive the way over the wire
C16_Witness ==
  /\ Answered("merchant")
  /\ Len(ReturnedCarts) = 3
  /\ \E i \in 1..3 : ~HasKey(Get(ReturnedCarts[i], "contents"), "image_url")

(***************************************************************************)
(* C17. Whenever the matcher is not available (no API key, the call        *)
(* throws, the reply cannot be parsed), the Merchant Agent answers a       *)
(* trusted caller with the carts of the first 3 packages of the catalog,   *)
(* in catalog order.                                                       *)
(***************************************************************************)
C17_MatcherFallback ==
  (/\ Answered("merchant") /\ TrustedCaller(call.request)
   /\ call.met.outcome \in {"no_api_key", "throws", "unparsable"}) =>
     /\ call.response.status = 200
     /\ CartsFor(ReturnedCarts, SubSeq(VACATION_PACKAGES, 1, 3))

\* the matcher's reply could not be parsed and three carts came back
C17_Witness ==
  /\ Answered("merchant") /\ TrustedCaller(call.request)
  /\ call.met.outcome = "unparsable"
  /\ Len(ReturnedCarts) = 3
  /\ PackageName(ReturnedCarts[3]) = VACATION_PACKAGES[3].name

\* the action a trusted caller asks the Credentials Provider for
AsksFor(action) ==
  /\ Answered("credentials")
  /\ TrustedCaller(call.request)
  /\ extractDataFromMessage(call.request, "action") = Returned(JStr(action))

\* what the answering envelope holds under key
ReturnedData(key) == ValuesUnder(Dig(call.response.body, <<"task", "result">>), key)

(***************************************************************************)
(* C18. Whatever requests the Credentials Provider has served before       *)
(* (get_payment_methods, initiate_payment, unknown actions, unauthorized   *)
(* callers), its list of payment methods is the fixed list, and            *)
(* get_payment_methods from a trusted caller is answered with that list.   *)
(***************************************************************************)
C18_WalletIsFixed ==
  /\ wallet = USER_PAYMENT_METHODS
  /\ AsksFor("get_payment_methods") =>
       /\ call.response.status = 200
       /\ ReturnedData("payment_methods") = <<USER_PAYMENT_METHODS>>

\* the list was asked for and came back: three methods, the first pm-001
C18_Witness ==
  /\ AsksFor("get_payment_methods")
  /\ ReturnedData("payment_methods") # <<>>
  /\ Len(Elems(ReturnedData("payment_methods")[1])) = 3
  /\ Get(Elems(ReturnedData("payment_methods")[1])[1], "id") = JStr("pm-001")

(***************************************************************************)
(* C19. A trusted caller's initiate_payment fails with an error and        *)
(* carries no payment_status when the envelope has no                      *)
(* ap2.mandates.PaymentMandate data part, and is acknowledged with         *)
(* payment_status ready when it has one.                                   *)
(***************************************************************************)
C19_InitiatePaymentNeedsMandate ==
  AsksFor("initiate_payment") =>
     IF ValuesUnder(call.request, "ap2.mandates.PaymentMandate") = <<>>
       THEN /\ call.response.status # 200
            /\ Truthy(Get(call.response.body, "error"))
            /\ "payment_status" \notin KeysDeep(call.response.body)
       ELSE /\ call.response.status = 200
            /\ ReturnedData("payment_status") = <<JStr("ready")>>

\* the Payment mandate presented is genuine: its token verifies and binds
\* the digest of its contents
GenuineMandate(paymentMandate, t) ==
  LET verified == verifyJWT(Get(paymentMandate, "user_authorization"), t)
  IN /\ verified.ok
     /\ Get(verified.payload, "mandate_hash")
          = JStr(hashObject(Get(paymentMandate, "payment_mandate_contents")))

(***************************************************************************)
(* C20. The Credentials Provider acknowledges initiate_payment (payment    *)
(* mandate received and verified, payment_status ready) only for a Payment *)
(* mandate whose user_authorization verifies and whose mandate_hash is the *)
(* digest of its contents.                                                 *)
(***************************************************************************)
C20_OnlyGenuineMandatesAcknowledged ==
  (Answered("credentials") /\ ReturnedData("payment_status") # <<>>) =>
     LET presented == ValuesUnder(call.request, "ap2.mandates.PaymentMandate")
     IN presented # <<>> /\ GenuineMandate(presented[1], call.at)

(***************************************************************************)
(* C26. The Credentials Provider reads the text parts only when there is   *)
(* no action: a trusted caller's envelope whose action is initiate_payment *)
(* is handled as initiate_payment (acknowledged, or refused for want of a  *)
(* Payment mandate) whatever its text parts say, and is never answered     *)
(* with the list of payment methods.                                       *)
(***************************************************************************)
C26_ActionBeforeText ==
  AsksFor("initiate_payment") =>
     /\ ReturnedData("payment_methods") = <<>>
     /\ \/ ReturnedData("payment_status") = <<JStr("ready")>>
        \/ Truthy(Get(call.response.body, "error"))

\* the keys the agents look up in a request envelope
LookedUp ==
  {"shopping_agent_id", "action", "ap2.mandates.IntentMandate",
   "ap2.mandates.PaymentMandate"}

\* the value of the first data part, in part order, that contains key
FirstStored(envelope, key) ==
  IF ValuesUnder(envelope, key) = <<>> THEN JNull
  ELSE ValuesUnder(envelope, key)[1]

(***************************************************************************)
(* C21. extractDataFromMessage(envelope, key) returns the value stored     *)
(* under key in the first data part, in part order, that contains key,     *)
(* whatever that value is (false, 0 and the empty string included), and    *)
(* returns null only when no data part contains key.                       *)
(***************************************************************************)
C21_FirstMatchWins ==
  call # NoCall =>
    \A key \in LookedUp :
       extractDataFromMessage(call.request, key)
         = Returned(FirstStored(call.request, key))

(***************************************************************************)
(* SpecShopping: requests reach the Shopping Agent API one at a time; the  *)
(* handler runs to its answer; the client may hold on to a Payment mandate *)
(* it was given; time passes.                                              *)
(***************************************************************************)
\* v with the member at a.b.c set to w
RECURSIVE Put(_, _, _)
Put(v, keys, w) ==
  IF keys = <<>> THEN w
  ELSE SetKey(v, Head(keys), Put(Get(v, Head(keys)), Tail(keys), w))

\* a cart the Merchant signed when the clock read 0
SignedCart == BuildCartMandate(VACATION_PACKAGES[1], 0, 1)

\* the carts a client presents
PresentedCarts ==
  { SignedCart,
    \* the total changed after signing
    Put(SignedCart, DETAILS_TOTAL \o <<"amount", "value">>, JNum(1)),
    \* a top-level member of the contents changed after signing
    Put(SignedCart, <<"contents", "merchant_name">>, JStr("Another Merchant")),
    \* a token made with another key
    SetKey(SignedCart, "merchant_authorization",
           Jwt(Header(Get(SignedCart, "merchant_authorization")),
               Payload(Get(SignedCart, "merchant_authorization")),
               "another-key")),
    \* no token at all
    JObj(<<KV("contents", Get(SignedCart, "contents"))>>),
    \* not a cart
    JObj(<<KV("id", JStr("cart-0-1"))>>) }

PresentedMethods ==
  { Elems(USER_PAYMENT_METHODS)[1],
    JObj(<<KV("id", JStr("pm-999")), KV("type", JStr("card"))>>) }

PresentedHistories ==
  { JUndef,
    serializeHistory(<<Chat("SystemMessage", JStr(SYSTEM_PROMPT)),
                       Chat("HumanMessage", JStr("mountains")),
                       Chat("AIMessage", JStr("Here are some options"))>>),
    JArr(<<JObj(<<KV("type", JStr("tool")), KV("content", JStr("x"))>>)>>) }

Body(message, action, ctx, data, history) ==
  Wire(JObj(<<KV("message", message), KV("action", action),
              KV("contextId", ctx), KV("data", data),
              KV("conversationHistory", history)>>))

Post(body) == [method |-> "POST", body |-> body]

ContextIds == {JUndef, JStr("ctx-7")}

ShoppingRequests ==
  {[method |-> "GET", body |-> JObj(<<>>)]}
  \cup {Post(Body(JUndef, JUndef, c, JUndef, JUndef)) : c \in ContextIds}
  \cup {Post(Body(m, JStr("search_vacations"), c, JUndef, JUndef)) :
          m \in {JStr("beach"), JUndef}, c \in ContextIds}
  \cup {Post(Body(JStr("beach"), JStr("search_vacations"), JStr("ctx-7"), JUndef, h)) :
          h \in PresentedHistories}
  \cup {Post(Body(JStr("hello"), a, JUndef, JUndef, h)) :
          a \in {JUndef, JStr("dance")}, h \in PresentedHistories}
  \cup {Post(Body(JUndef, JStr("get_payment_methods"), c, JUndef, JUndef)) :
          c \in ContextIds}
  \cup {Post(Body(JUndef, JStr("create_payment_mandate"), JStr("ctx-7"), d, JUndef)) :
          d \in {JUndef}
             \cup {JObj(<<KV("cartMandate", cart), KV("paymentMethod", pm)>>) :
                     cart \in PresentedCarts, pm \in PresentedMethods}
             \cup {JObj(<<KV("cartMandate", SignedCart)>>),
                   JObj(<<KV("paymentMethod", Elems(USER_PAYMENT_METHODS)[1])>>)}}

\* what the handler meets outside the request: the environment, the
\* language model, its peers, its random draws
ChatReplies ==
  { [outcome |-> "throws", text |-> ""],
    [outcome |-> "reply", text |-> "Here are some options"],
    [outcome |-> "reply", text |-> "CREATE_INTENT_MANDATE Here are some options"] }

\* the matcher's outcomes the Shopping Agent's searches meet
MatcherReplies ==
  { LlmReply("no_api_key", <<>>),
    LlmReply("json", <<>>),
    LlmReply("json", <<"vac-003", "vac-001">>),
    LlmReply("json", <<"vac-004", "vac-003", "vac-002", "vac-001">>) }

\* peerFails: the handler of the peer throws in its try block and answers
\* from its catch
Outside(apiKey, r, peerUp, peer, chat, llm, draws) ==
  [apiKey |-> apiKey, r |-> r, peerUp |-> peerUp, peerFails |-> FALSE,
   peer |-> peer, chat |-> chat, llm |-> llm, draws |-> draws]

Calm(r) ==
  Outside(TRUE, r, TRUE, 1, [outcome |-> "reply", text |-> "Here are some options"],
          LlmReply("json", <<>>), <<1>>)

Outsides(req) ==
  LET action == Get(req.body, "action")
  IN {[Calm(1) EXCEPT !.apiKey = FALSE]}
     \cup {Calm(r) : r \in Rands}
     \cup IF action = JStr("search_vacations")
            THEN {[Calm(1) EXCEPT !.peerUp = FALSE], [Calm(1) EXCEPT !.peerFails = TRUE]}
                 \cup UNION {{Outside(TRUE, draws[1], TRUE, 1, chat, llm, draws) :
                                chat \in ChatReplies,
                                draws \in MerchantDraws(llm)} : llm \in MatcherReplies}
          ELSE IF action = JStr("get_payment_methods")
            THEN {[Calm(r) EXCEPT !.peerUp = up, !.peer = peer] :
                    r \in Rands, up \in BOOLEAN, peer \in Rands}
                 \cup {[Calm(1) EXCEPT !.peerFails = TRUE]}
          ELSE IF action = JStr("create_payment_mandate") THEN {}
          ELSE {[Calm(1) EXCEPT !.chat = chat] : chat \in ChatReplies}

Deadlines == {CartTokenTtl, PaymentTokenTtl, CartExpiryTtl}

ShoppingInit ==
  /\ now = 0
  /\ UiIdle
  /\ IntegrityIdle
  /\ ApiIdle

ShoppingArrive ==
  /\ \E req \in ShoppingRequests : Arrive("shopping", req)
  /\ UNCHANGED <<now, integrityVars, uiVars>>

ShoppingRespond ==
  /\ Handling("shopping")
  /\ \E ext \in Outsides(call.request) :
       call' = [handler |-> "shopping", request |-> call.request,
                answered |-> TRUE, at |-> now, r |-> ext.r,
                peerFails |-> ext.peerFails,
                response |-> ShoppingAgent(call.request, now, ext)]
  /\ UNCHANGED <<now, integrityVars, kept, wallet, session, uiVars>>

\* the exchange is over: the server keeps nothing of it, the client may
\* keep the Payment mandate it was given for the cart the Merchant signed
ShoppingClose ==
  /\ Answered("shopping")
  /\ call' = NoCall
  /\ \/ UNCHANGED kept
     \/ /\ call.response.signed # <<>>
        /\ Dig(call.request.body, <<"data", "cartMandate">>) = SignedCart
        /\ kept' = [held |-> TRUE,
                    cart |-> Dig(call.request.body, <<"data", "cartMandate">>),
                    mandate |-> Get(call.response.body, "payment_mandate"),
                    at |-> call.at, r |-> call.r]
  /\ UNCHANGED <<wallet, session>>
  /\ UNCHANGED <<now, integrityVars, uiVars>>

\* the clock moves on to an instant at which a token or a cart signed at 0
\* runs out
ShoppingTick ==
  /\ \E d \in Deadlines : d > now /\ d <= MaxNow /\ now' = d
  /\ UNCHANGED <<integrityVars, apiVars, uiVars>>

ShoppingNext ==
  \/ ShoppingArrive \/ ShoppingRespond \/ ShoppingClose \/ ShoppingTick

SpecShopping == ShoppingInit /\ [][ShoppingNext]_vars

\* create_payment_mandate answered with a Payment mandate
MandateReturned ==
  /\ Answered("shopping")
  /\ Get(call.request.body, "action") = JStr("create_payment_mandate")
  /\ call.response.status = 200
  /\ call.response.signed # <<>>

RequestCart == Dig(call.request.body, <<"data", "cartMandate">>)
ReturnedContents ==
  Dig(call.response.body, <<"payment_mandate", "payment_mandate_contents">>)
ReturnedToken ==
  Dig(call.response.body, <<"payment_mandate", "user_authorization">>)

\* the sum of the display line items of a cart
ItemsSum(cartMandate) ==
  Dig(PaymentDetailsTotalRecomputed(cartMandate), <<"amount", "value">>).n

(***************************************************************************)
(* C1. Whenever create_payment_mandate answers a request that carries a    *)
(* Cart mandate and a payment method with a Payment mandate, the mandate's *)
(* payment_details_total is the cart's details.total and its               *)
(* payment_details_id is the cart's details.id, as they stand in the       *)
(* request: nothing is added up again from the display items.              *)
(***************************************************************************)
C1_TotalCopiedFromCart ==
  MandateReturned =>
     /\ Get(ReturnedContents, "payment_details_total") = Dig(RequestCart, DETAILS_TOTAL)
     /\ Get(ReturnedContents, "payment_details_id") = Dig(RequestCart, DETAILS_ID)

\* a mandate was returned for a cart whose total is not the sum of its items
C1_Witness ==
  /\ MandateReturned
  /\ Dig(RequestCart, DETAILS_TOTAL \o <<"amount", "value">>).n # ItemsSum(RequestCart)
  /\ Dig(ReturnedContents, <<"payment_details_total", "amount", "value">>) = JNum(1)

\* the two checks of a Cart mandate: the token verifies, and the digest in
\* the token is the digest of the contents
CartIntegrityFails(cartMandate) ==
  LET token == Get(cartMandate, "merchant_authorization")
      contents == Get(cartMandate, "contents")
  IN \/ token.t # "jwt"
     \/ ~SignatureValid(token)
     \/ contents.t # "obj"
     \/ Get(Payload(token), "cart_hash") # JStr(hashObject(contents))

(***************************************************************************)
(* C4. create_payment_mandate never answers a request whose Cart mandate   *)
(* fails integrity (the token does not verify, or the digest of the        *)
(* contents is not the digest in the token) with a Payment mandate: it     *)
(* answers with an error and signs nothing.                                *)
(***************************************************************************)
C4_NoMandateForBrokenCart ==
  ( /\ Answered("shopping")
    /\ Get(call.request.body, "action") = JStr("create_payment_mandate")
    /\ Truthy(RequestCart)
    /\ CartIntegrityFails(RequestCart) ) =>
       /\ call.response.status # 200
       /\ call.response.signed = <<>>

\* cart_expiry or the expiry of the merchant's token has passed at t
CartExpired(cartMandate, t) ==
  LET token == Get(cartMandate, "merchant_authorization")
  IN \/ Dig(cartMandate, <<"contents", "cart_expiry">>).n <= t
     \/ Get(Payload(token), "exp").n <= t

(***************************************************************************)
(* C5. A request to create a Payment mandate for a cart whose cart_expiry  *)
(* or whose token's expiry has passed is never answered with a signed      *)
(* Payment mandate.                                                        *)
(***************************************************************************)
C5_ExpiredCartUnselectable ==
  ( /\ Answered("shopping")
    /\ Get(call.request.body, "action") = JStr("create_payment_mandate")
    /\ RequestCart = SignedCart
    /\ CartExpired(RequestCart, call.at) ) =>
       call.response.signed = <<>>

\* a second Payment mandate was returned for the cart of the one kept
SecondMandate ==
  /\ MandateReturned
  /\ kept.held
  /\ RequestCart = kept.cart

DistinctFromKept ==
  /\ Get(ReturnedContents, "payment_mandate_id")
       # Dig(kept.mandate, <<"payment_mandate_contents", "payment_mandate_id">>)
  /\ ReturnedToken # Get(kept.mandate, "user_authorization")

Needles(text) ==
  CASE text = "yes" -> {"yes"}
    [] text = "ok proceed" -> {"proceed"}
    [] text = "retry" -> {"retry"}
    [] text = "yes, try again" -> {"yes", "try again", "again"}
    [] OTHER -> {}

\* text.toLowerCase().includes(needle)
Includes(text, needle) == needle \in Needles(text)

\* text.trim()
Trim(text) == IF text = "  " THEN "" ELSE text

Ui ==
  [lastMessage |-> lastMessage, staleRetry |-> staleRetry, offered |-> offered,
   isProcessing |-> isProcessing, selectedPackage |-> selectedPackage,
   showStripeCheckout |-> showStripeCheckout,
   paymentComplete |-> paymentComplete, paymentFailed |-> paymentFailed,
   contextId |-> contextId, conversationHistory |-> conversationHistory,
   pending |-> pending, lastMandate |-> lastMandate, methodsFor |-> methodsFor,
   envelopes |-> envelopes]

\* setMessages(prev => [...prev, message])
addMessage(u, message) ==
  [u EXCEPT !.lastMessage = message,
            !.staleRetry = @ + IF u.lastMessage.showRetry THEN 1 ELSE 0]

\* fetch("/api/shopping-agent", {method: "POST", body: JSON.stringify(body)})
Fetch(u, kind, body, cart) ==
  [u EXCEPT !.pending =
     Append(@, [kind |-> kind, request |-> Post(body), cart |-> cart])]

PRIMARY_VISA ==
  JObj(<<KV("id", JStr("pm-001")), KV("alias", JStr("Primary Visa")),
         KV("type", JStr("card"))>>)

\* handleConfirmPayment, up to its fetch
handleConfirmPayment(u) ==
  IF u.selectedPackage = JNull THEN u
  ELSE Fetch([u EXCEPT !.isProcessing = TRUE], "mandate",
             Body(JUndef, JStr("create_payment_mandate"), u.contextId,
                  JObj(<<KV("cartMandate", u.selectedPackage),
                         KV("paymentMethod", PRIMARY_VISA)>>), JUndef),
             u.selectedPackage)

\* handleSelectPackage, up to its fetch
handleSelectPackage(u, cartMandate) ==
  Fetch([addMessage(u, Message("assistant", "Great choice", FALSE))
           EXCEPT !.selectedPackage = cartMandate, !.isProcessing = TRUE],
        "methods",
        Body(JUndef, JStr("get_payment_methods"), u.contextId, JUndef, JUndef),
        cartMandate)

WantsRetry(text) ==
  Includes(text, "retry") \/ Includes(text, "try again") \/ Includes(text, "again")

WantsToProceed(text) == Includes(text, "yes") \/ Includes(text, "proceed")

\* handleSendMessage, up to its fetch
handleSendMessage(u, userMessage) ==
  LET said == addMessage(u, Message("user", userMessage, FALSE))
  IN IF Trim(userMessage) = "" \/ u.isProcessing THEN u
     ELSE IF /\ WantsRetry(userMessage)
             /\ u.paymentFailed
             /\ u.selectedPackage # JNull
             /\ ~u.paymentComplete
       THEN handleConfirmPayment(
              addMessage([said EXCEPT !.paymentFailed = FALSE, !.staleRetry = 0],
                         Message("assistant", "Retrying payment", FALSE)))
     ELSE IF /\ WantsToProceed(userMessage)
             /\ u.selectedPackage # JNull
             /\ ~u.showStripeCheckout
             /\ ~u.paymentComplete
       THEN said
     ELSE Fetch([said EXCEPT !.isProcessing = TRUE], "search",
                Body(JStr(userMessage), JStr("search_vacations"), u.contextId,
                     JUndef, u.conversationHistory),
                JNull)

\* handlePaymentSuccess
handlePaymentSuccess(u) ==
  LET done == [u EXCEPT !.paymentComplete = TRUE, !.showStripeCheckout = FALSE]
  IN IF u.selectedPackage # JNull
       THEN addMessage(done, Message("assistant", "Payment Successful", FALSE))
       ELSE done

\* handlePaymentError
handlePaymentError(u) ==
  addMessage([u EXCEPT !.showStripeCheckout = FALSE, !.paymentFailed = TRUE],
             Message("assistant", "Payment failed", TRUE))

\* handleRetryPayment: only the last message loses its Retry button
handleRetryPayment(u) ==
  handleConfirmPayment(
    addMessage([u EXCEPT !.paymentFailed = FALSE, !.lastMessage.showRetry = FALSE],
               Message("assistant", "Retrying payment", FALSE)))

\* A mutant of AutoConfirm: the effect does nothing
AutoConfirmOff(u) == u

\* the effect that confirms the payment when the last message says so
AutoConfirm(u) ==
  IF /\ u.lastMessage.role = "user"
     /\ WantsToProceed(u.lastMessage.content)
     /\ u.selectedPackage # JNull
     /\ ~u.showStripeCheckout
     /\ ~u.paymentComplete
    THEN handleConfirmPayment(u)
    ELSE u

\* handleSendMessage, from the answer of its fetch on
SearchAnswered(u, data, threw) ==
  LET heard == IF Truthy(Get(data, "conversationHistory"))
                 THEN [u EXCEPT !.conversationHistory = Get(data, "conversationHistory")]
                 ELSE u
      packages == Get(data, "cart_mandates")
  IN IF threw
       THEN [addMessage(u, Message("assistant", "I'm having trouble", FALSE))
               EXCEPT !.isProcessing = FALSE]
     ELSE IF Truthy(Get(data, "error"))
       THEN [addMessage(heard, Message("assistant", "Sorry, there was an error", FALSE))
               EXCEPT !.isProcessing = FALSE]
     ELSE [addMessage(heard, Message("assistant", "Here are the packages", FALSE))
             EXCEPT !.contextId = Get(data, "context_id"),
                    !.offered = @ \cup {Elems(packages)[i] : i \in 1..Len(Elems(packages))},
                    !.isProcessing = FALSE]

\* handleSelectPackage, from the answer of its fetch on
MethodsAnswered(u, data, threw, cartMandate) ==
  IF threw \/ Get(data, "payment_methods").t # "arr"
    THEN [addMessage(u, Message("assistant", "Error retrieving payment methods", FALSE))
            EXCEPT !.isProcessing = FALSE]
    ELSE [addMessage(u, Message("assistant", "Your available payment methods", FALSE))
            EXCEPT !.isProcessing = FALSE, !.methodsFor = @ \cup {Dig(cartMandate, <<"contents", "id">>)}]

\* handleConfirmPayment, from the answer of its fetch on
MandateAnswered(u, data, threw) ==
  IF threw \/ DigThrows(data, <<"payment_mandate", "payment_mandate_contents",
                               "payment_mandate_id">>)
    THEN [addMessage(u, Message("assistant", "Error creating payment mandate", FALSE))
            EXCEPT !.isProcessing = FALSE]
    ELSE [addMessage(u, Message("system", "Payment Mandate signed", FALSE))
            EXCEPT !.showStripeCheckout = TRUE, !.isProcessing = FALSE]

(***************************************************************************)
(* StripeCheckout and /api/create-payment-intent.  Amounts are in cents    *)
(* throughout, which is what Math.round(amount * 100) makes of the page's  *)
(* amount.                                                                 *)
(***************************************************************************)
\* currency.toLowerCase()
ToLowerCase(currency) == IF currency = "USD" THEN "usd" ELSE currency

\* the StripeCheckout element is rendered
Mounted(u) == u.showStripeCheckout /\ u.selectedPackage # JNull

\* the body StripeCheckout posts for the package selected
IntentRequest(cartMandate) ==
  [asked |-> TRUE,
   amount |-> Dig(cartMandate, DETAILS_TOTAL \o <<"amount", "value">>),
   currency |-> Dig(cartMandate, DETAILS_TOTAL \o <<"amount", "currency">>),
   cartId |-> Dig(cartMandate, <<"contents", "id">>)]

\* /api/create-payment-intent
createPaymentIntent(body) ==
  IF ~Truthy(body.amount) \/ ~Truthy(body.currency)
    THEN [status |-> 400]
    ELSE [status |-> 200, amount |-> body.amount.n,
          currency |-> ToLowerCase(body.currency.s)]

(***************************************************************************)
(* Spec: the page.  A handler runs to its fetch in one step; the answer of *)
(* a fetch and what the handler does with it is another step.  After each  *)
(* step the page renders: the confirming effect runs, and StripeCheckout,  *)
(* whose effect depends on the onError it is handed anew with each render, *)
(* asks for a payment intent for the package selected then.                *)
(***************************************************************************)
Render(u, inFlight) ==
  LET handled == u
      v == AutoConfirm(handled)
  IN /\ Len(v.pending) <= MaxPending
     /\ lastMessage' = v.lastMessage
     /\ staleRetry' = v.staleRetry
     /\ offered' = v.offered
     /\ isProcessing' = v.isProcessing
     /\ selectedPackage' = v.selectedPackage
     /\ showStripeCheckout' = v.showStripeCheckout
     /\ paymentComplete' = v.paymentComplete
     /\ paymentFailed' = v.paymentFailed
     /\ contextId' = v.contextId
     /\ conversationHistory' = v.conversationHistory
     /\ pending' = v.pending
     /\ lastMandate' = v.lastMandate
     /\ methodsFor' = v.methodsFor
     /\ envelopes' = v.envelopes
     /\ clientSecret' = (Mounted(v) /\ clientSecret)
     /\ unsettled' = (Mounted(v) /\ clientSecret /\ unsettled)
     /\ intents' = IF Mounted(v) /\ inFlight < MaxIntents THEN inFlight + 1
                   ELSE inFlight
     /\ lastIntent' = IF Mounted(v) THEN IntentRequest(v.selectedPackage)
                      ELSE lastIntent
     /\ UNCHANGED <<now, integrityVars, apiVars>>

UserTexts == {"beach", "yes", "retry"}

HumanTurns(history) ==
  LET IsHuman(m) == Get(m, "type") = JStr("human")
  IN Len(SelectSeq(Elems(history), IsHuman))

Searches(u) ==
  LET IsSearch(f) == f.kind = "search"
  IN Len(SelectSeq(u.pending, IsSearch))

RetryButtons == staleRetry + IF lastMessage.showRetry THEN 1 ELSE 0

UiInit ==
  /\ now = 0
  /\ IntegrityIdle
  /\ ApiIdle
  /\ UiIdle

\* the user sends a text; the input is disabled while isProcessing or
\* showStripeCheckout
SendMessage ==
  /\ ~isProcessing /\ ~showStripeCheckout
  /\ \E text \in UserTexts :
       /\ Trim(text) # ""
       /\ Searches(handleSendMessage(Ui, text)) > Searches(Ui)
            => HumanTurns(conversationHistory) < MaxTurns
       /\ Render(handleSendMessage(Ui, text), intents)

\* the user clicks Select This Package on a cart of some message
SelectPackage ==
  \E cartMandate \in offered : Render(handleSelectPackage(Ui, cartMandate), intents)

\* the user clicks the Retry Payment button of some message
RetryPayment ==
  /\ RetryButtons > 0
  /\ Render(handleRetryPayment(Ui), intents)

Without(seq, i) == SubSeq(seq, 1, i - 1) \o SubSeq(seq, i + 1, Len(seq))

\* what the Shopping Agent API meets while it serves the page
\* the peer is reached and answers with an error
PeerAnswersError == [Calm(1) EXCEPT !.peerFails = TRUE]

Serving(kind) ==
  CASE kind = "search" ->
         { [Calm(1) EXCEPT !.peerUp = FALSE], PeerAnswersError, Calm(1),
           Outside(TRUE, 1, TRUE, 1,
                   [outcome |-> "reply", text |-> "Here are some options"],
                   LlmReply("json", <<"vac-003", "vac-001">>), InTurn(3)) }
    [] kind = "methods" -> {Calm(1), [Calm(1) EXCEPT !.peerUp = FALSE],
                            PeerAnswersError}
    [] kind = "mandate" -> {Calm(1), [Calm(1) EXCEPT !.apiKey = FALSE]}

\* the page after the Shopping Agent served a fetch: the envelopes it sent
\* went out, and a signed Payment mandate stands for the cart asked for
Served(u, answer, cart) ==
  [u EXCEPT
     !.lastMandate = IF answer.signed # <<>> THEN cart ELSE @,
     !.envelopes = @ \cup
       {[to |-> answer.sent[k].to,
         context_id |-> Get(answer.sent[k].envelope, "context_id")] :
          k \in 1..Len(answer.sent)}]

\* the fetch pending[i] is served and answered; a search may also fail on
\* the way
Answer_(i, Continue(_, _, _, _)) ==
  LET f == pending[i]
      u == [Ui EXCEPT !.pending = Without(pending, i)]
  IN \/ f.kind = "search" /\ Render(Continue(u, JUndef, TRUE, f.cart), intents)
     \/ \E ext \in Serving(f.kind) :
          LET answer == ShoppingAgent(f.request, now, ext)
          IN Render(Continue(Served(u, answer, f.cart), answer.body, FALSE, f.cart),
                    intents)

SearchContinue(u, data, threw, cart) == SearchAnswered(u, data, threw)
MandateContinue(u, data, threw, cart) == MandateAnswered(u, data, threw)

SearchAnswer ==
  \E i \in 1..Len(pending) :
     pending[i].kind = "search" /\ Answer_(i, SearchContinue)

MethodsAnswer ==
  \E i \in 1..Len(pending) :
     pending[i].kind = "methods" /\ Answer_(i, MethodsAnswered)

MandateAnswer ==
  \E i \in 1..Len(pending) :
     pending[i].kind = "mandate" /\ Answer_(i, MandateContinue)

\* /api/create-payment-intent answers with a client secret
IntentReady ==
  /\ intents > 0
  /\ createPaymentIntent(lastIntent).status = 200
  /\ intents' = intents - 1
  /\ clientSecret' = Mounted(Ui)
  /\ UNCHANGED <<now, integrityVars, apiVars, lastMessage, staleRetry, offered,
                 isProcessing, selectedPackage, showStripeCheckout,
                 paymentComplete, paymentFailed, contextId, conversationHistory,
                 pending, unsettled, lastIntent, lastMandate, methodsFor,
                 envelopes>>

\* /api/create-payment-intent answers without one, or not at all: onError
IntentFails ==
  /\ intents > 0
  /\ RetryButtons < MaxRetryButtons
  /\ Render(handlePaymentError(Ui), intents - 1)

\* CheckoutForm.handleSubmit: stripe.confirmPayment succeeded
PaymentSucceeds ==
  /\ Mounted(Ui) /\ clientSecret
  /\ Render(handlePaymentSuccess(Ui), intents)

\* CheckoutForm.handleSubmit: stripe.confirmPayment gave an error
PaymentFails ==
  /\ Mounted(Ui) /\ clientSecret
  /\ RetryButtons < MaxRetryButtons
  /\ Render(handlePaymentError(Ui), intents)

\* CheckoutForm.handleSubmit: stripe.confirmPayment gave no error and a
\* paymentIntent whose status is not succeeded (processing, requires_action,
\* requires_capture): neither onSuccess nor onError is called
PaymentPending ==
  /\ Mounted(Ui) /\ clientSecret
  /\ unsettled' = TRUE
  /\ UNCHANGED <<now, integrityVars, apiVars, lastMessage, staleRetry, offered,
                 isProcessing, selectedPackage, showStripeCheckout,
                 paymentComplete, paymentFailed, contextId, conversationHistory,
                 pending, clientSecret, intents, lastIntent, lastMandate,
                 methodsFor, envelopes>>

Next ==
  \/ SendMessage \/ SelectPackage \/ RetryPayment
  \/ SearchAnswer \/ MethodsAnswer \/ MandateAnswer
  \/ IntentReady \/ IntentFails
  \/ PaymentSucceeds \/ PaymentFails \/ PaymentPending

Spec == UiInit /\ [][Next]_vars

MandateFetches(fetches) ==
  LET IsMandate(f) == f.kind = "mandate"
  IN Len(SelectSeq(fetches, IsMandate))

(***************************************************************************)
(* C6. Once settlement has succeeded (paymentComplete), no step of the     *)
(* page sends a new create_payment_mandate request: typing, a click on a   *)
(* Retry Payment button and the selection of a package all leave the       *)
(* Payment mandates as they are.                                           *)
(***************************************************************************)
C6_SettledIsTerminal ==
  [][paymentComplete => MandateFetches(pending') <= MandateFetches(pending)]_vars

\* the payment intent asked for is the total of the cart
IntentMatches(intent, cartMandate) ==
  /\ cartMandate # JNull
  /\ createPaymentIntent(intent).status = 200
  /\ createPaymentIntent(intent).amount
       = Dig(cartMandate, DETAILS_TOTAL \o <<"amount", "value">>).n
  /\ createPaymentIntent(intent).currency
       = ToLowerCase(Dig(cartMandate, DETAILS_TOTAL \o <<"amount", "currency">>).s)

(***************************************************************************)
(* C8. Whenever StripeCheckout asks for a payment intent, the amount and   *)
(* the currency asked for are those of the total of the cart for which the *)
(* most recent Payment mandate was signed.                                 *)
(***************************************************************************)
C8_IntentIsMandatedTotal ==
  [][(lastIntent' # lastIntent \/ intents' > intents)
       => IntentMatches(lastIntent', lastMandate')]_vars

(***************************************************************************)
(* C9. A Payment mandate is signed only for a cart whose payment methods   *)
(* the page has received before.                                           *)
(***************************************************************************)
C9_MethodsBeforeMandate ==
  lastMandate # JNull => Dig(lastMandate, <<"contents", "id">>) \in methodsFor

(***************************************************************************)
(* C10. The page never has two calls of the Shopping Agent API outstanding *)
(* at the same time.                                                       *)
(***************************************************************************)
C10_OneOutstandingCall == Len(pending) <= 1

(***************************************************************************)
(* SpecSession: the page's conversation with the Shopping Agent API while  *)
(* time passes: searches, selections, confirmations and their answers.     *)
(* The checkout, which sends nothing to the agents, is left to Spec.       *)
(***************************************************************************)
\* time passes while the page is open
PageTick ==
  /\ now < MaxPageNow
  /\ now' = now + 1
  /\ UNCHANGED <<integrityVars, apiVars, uiVars>>

SessionNext ==
  \/ PageTick
  \/ SendMessage \/ SelectPackage
  \/ SearchAnswer \/ MethodsAnswer \/ MandateAnswer

SpecSession == UiInit /\ [][SessionNext]_vars

\* the context ids of the envelopes sent while serving the page
SentContextIds == {e.context_id : e \in envelopes}

(***************************************************************************)
(* C11. All the envelopes the Shopping Agent sends out for one session of  *)
(* the page, to the Merchant Agent and to the Credentials Provider, carry  *)
(* the same context_id: the one assigned on the session's first request.   *)
(***************************************************************************)
C11_OneContextPerSession == Cardinality(SentContextIds) <= 1

(***************************************************************************)
(* SpecCanonical: a contents object and a copy of it with the same members *)
(* in another order, at any level of nesting; the merchant signs the       *)
(* object.                                                                 *)
(***************************************************************************)
\* the paths to the objects inside a JSON value
RECURSIVE ObjectPaths(_)
ObjectPaths(v) ==
  IF IsAtom(v) \/ v.t = "jwt" THEN {}
  ELSE (IF v.t = "obj" THEN {<<>>} ELSE {})
       \cup UNION {{<<i>> \o p : p \in ObjectPaths(v.kv[i].v)} : i \in 1..Len(v.kv)}

\* the object with its members i and i + 1 exchanged
Exchange(obj, i) ==
  [obj EXCEPT !.kv = [j \in 1..Len(obj.kv) |->
                        IF j = i THEN obj.kv[i + 1]
                        ELSE IF j = i + 1 THEN obj.kv[i]
                        ELSE obj.kv[j]]]

\* the copies of v made by one exchange of two neighbouring members of one
\* of its objects
Exchanged(v) ==
  UNION {{Replace(v, path, Exchange(At(v, path), i)) :
            i \in 1..(Len(At(v, path).kv) - 1)} : path \in ObjectPaths(v)}

\* the copies of v made by at most n exchanges
RECURSIVE Reordered(_, _)
Reordered(v, n) ==
  IF n = 0 THEN {v}
  ELSE LET before == Reordered(v, n - 1)
       IN before \cup UNION {Exchanged(w) : w \in before}

CanonicalInit ==
  /\ now = 0
  /\ UiIdle
  /\ ApiIdle
  /\ phase = "built"
  /\ \E p \in 1..Len(VACATION_PACKAGES), r \in Rands :
       cartContents = BuildCartContents(VACATION_PACKAGES[p], 0, r)
  /\ jwt = NoToken
  /\ heldContents \in Reordered(cartContents, MaxSwaps)
  /\ priced = NoPriced
  /\ agent = NoAgent

SpecCanonical == CanonicalInit /\ [][SignCart]_vars

(***************************************************************************)
(* C13. Canonicalization invariance: a copy of a contents object that has  *)
(* the same members and values in another order, at any level of nesting,  *)
(* has the same digest as the object, and so matches the cart_hash of the  *)
(* token signed over the object.                                           *)
(***************************************************************************)
C13_OrderDoesNotMatter ==
  /\ hashObject(heldContents) = hashObject(cartContents)
  /\ phase = "signed" =>
       Get(Payload(jwt), "cart_hash") = JStr(hashObject(heldContents))

\* a copy that differs in the order of its own members and in the order of
\* the members of a nested object, after signing
C13_Witness ==
  /\ phase = "signed"
  /\ heldContents.kv[1].k # cartContents.kv[1].k
  /\ Get(heldContents, "payment_request") # Get(cartContents, "payment_request")

(***************************************************************************)
(* SpecDialogue: one session of a caller of the Shopping Agent API that    *)
(* searches again and again, as handleSendMessage of the page does: each   *)
(* search carries the contextId and the conversationHistory the caller     *)
(* holds, and the caller takes both from the answer when they are there.   *)
(***************************************************************************)
Utterances == {"beach", "under 2000"}

\* handleSendMessage: the fetch of a search
DialogueAsk ==
  /\ call = NoCall
  /\ Len(session.uttered) < MaxUtterances
  /\ \E userMessage \in Utterances :
       /\ call' = [handler |-> "shopping",
                   request |-> Post(Body(JStr(userMessage), JStr("search_vacations"),
                                         session.contextId, JUndef,
                                         session.conversationHistory)),
                   answered |-> FALSE]
       /\ session' = [session EXCEPT !.uttered = Append(@, userMessage)]
  /\ UNCHANGED <<now, integrityVars, kept, wallet, uiVars>>

\* handleSendMessage: the answer of the search has come
DialogueHear ==
  /\ Answered("shopping")
  /\ LET data == call.response.body
     IN session' =
          [session EXCEPT
             !.conversationHistory =
                IF Truthy(Get(data, "conversationHistory"))
                  THEN Get(data, "conversationHistory") ELSE @,
             !.contextId =
                IF Truthy(Get(data, "error")) THEN @ ELSE Get(data, "context_id")]
  /\ call' = NoCall
  /\ UNCHANGED <<now, integrityVars, kept, wallet, uiVars>>

DialogueNext == DialogueAsk \/ ShoppingRespond \/ DialogueHear

SpecDialogue == ShoppingInit /\ [][DialogueNext]_vars

\* the description of the IntentMandate in the envelope the search sent to
\* the Merchant Agent
SentDescription ==
  Get(FirstStored(call.response.sent[1].envelope, "ap2.mandates.IntentMandate"),
      "natural_language_description")

(***************************************************************************)
(* C22. In a session whose caller passes back the conversationHistory each *)
(* search returned, the IntentMandate a search sends to the Merchant Agent *)
(* describes the intent by all the utterances of the session so far, the   *)
(* current one included, in order.                                         *)
(***************************************************************************)
C22_AllUtterancesSent ==
  (Answered("shopping") /\ call.response.sent # <<>>) =>
     SentDescription = JStr(JoinTexts(session.uttered, " | "))

(***************************************************************************)
(* SpecSessions: unrelated sessions at once.  The requests of the sessions *)
(* ctx-1 and ctx-2 reach the Merchant Agent and the Credentials Provider,  *)
(* those of other sessions reach the Shopping Agent API, in any            *)
(* interleaving.                                                           *)
(* What a handler answers is a function of the request, of the clock, of   *)
(* what it meets outside and of the state of its module; a session that    *)
(* runs alone meets the modules as they are after Init and after its own   *)
(* requests.                                                               *)
(***************************************************************************)
\* the envelopes of a session that reach the two peers
PeerRequests ==
  UNION {
    { [to |-> "merchant",
       envelope |-> Envelope(c, <<TextPart("Find vacation packages matching user's intent"),
                                  DataPart("ap2.mandates.IntentMandate",
                                           IntentMandate("beach", 0)),
                                  DataPart("shopping_agent_id", JStr(TRUSTED))>>)],
      [to |-> "credentials",
       envelope |-> Envelope(c, <<TextPart("Get available payment methods for user"),
                                  DataPart("action", JStr("get_payment_methods")),
                                  DataPart("shopping_agent_id", JStr(TRUSTED))>>)],
      [to |-> "credentials",
       envelope |-> Envelope(c, <<DataPart("action", JStr("initiate_payment")),
                                  DataPart("ap2.mandates.PaymentMandate",
                                           JObj(<<KV("user_authorization", JStr("x"))>>)),
                                  DataPart("shopping_agent_id", JStr(TRUSTED))>>)],
      [to |-> "credentials",
       envelope |-> Envelope(c, <<TextPart("hello"),
                                  DataPart("shopping_agent_id", JStr(TRUSTED))>>)] }
    : c \in {"ctx-1", "ctx-2"} }

PeerArrive ==
  /\ \E q \in PeerRequests : Arrive(q.to, q.envelope)
  /\ UNCHANGED <<now, integrityVars, uiVars>>

SessionsNext ==
  \/ PeerArrive \/ MerchantRespond \/ CredentialsRespond
  \/ ShoppingArrive \/ ShoppingRespond
  \/ AgentsClose \/ ShoppingClose

SpecSessions == AgentsInit /\ [][SessionsNext]_vars

C27_ContextIdEchoed ==
  /\ (Answered("merchant") \/ Answered("credentials")) /\ call.response.status = 200
       => Dig(call.response.body, <<"task", "result", "context_id">>)
            = Get(call.request, "context_id")
  /\ Answered("shopping") /\ call.response.status = 200
       => \A k \in 1..Len(call.response.sent) :
             Get(call.response.sent[k].envelope, "context_id")
               = Get(call.response.body, "context_id")

\* a search that came without a contextId was answered: the envelope sent
\* to the Merchant Agent and the reply carry the id the handler made
C27_Witness ==
  /\ Answered("shopping") /\ call.response.status = 200
  /\ Get(call.request.body, "contextId") = JUndef
  /\ Len(call.response.sent) = 1
  /\ call.response.sent[1].to = "merchant"
  /\ Get(call.response.sent[1].envelope, "context_id") = JStr("ctx-0")
  /\ Get(call.response.body, "context_id") = JStr("ctx-0")

\* the envelopes the call handled last has emitted: the response envelope
\* of a peer, the envelopes the Shopping Agent sent to its peers
Emitted ==
  IF (Answered("merchant") \/ Answered("credentials")) /\ call.response.status = 200
    THEN <<Dig(call.response.body, <<"task", "result">>)>>
  ELSE IF Answered("shopping")
    THEN [k \in 1..Len(call.response.sent) |-> call.response.sent[k].envelope]
  ELSE <<>>

\* the data objects of the data parts of an envelope, in order
DataOf(envelope) ==
  LET parts == Elems(Get(envelope, "parts"))
  IN [i \in 1..Len(parts) |-> Get(parts[i], "data")]

IsDataPart(envelope, i) ==
  Get(Elems(Get(envelope, "parts"))[i], "type") = JStr("data")

(***************************************************************************)
(* C30. Every envelope the Shopping Agent, the Merchant Agent and the      *)
(* Credentials Provider emit has pairwise distinct data keys, and each of  *)
(* its data parts holds exactly one key.                                   *)
(***************************************************************************)
C30_DataKeysDistinct ==
  \A e \in 1..Len(Emitted) :
     LET data == DataOf(Emitted[e])
         D == {i \in 1..Len(data) : IsDataPart(Emitted[e], i)}
     IN /\ \A i \in D : Len(data[i].kv) = 1
        /\ \A i, j \in D : i # j => data[i].kv[1].k # data[j].kv[1].k

\* a search was served: the envelope sent to the Merchant Agent has two
\* data parts, the Intent mandate and the caller's identity
C30_Witness ==
  /\ Answered("shopping")
  /\ Len(Emitted) = 1
  /\ call.response.sent[1].to = "merchant"
  /\ LET data == DataOf(Emitted[1])
     IN /\ Len(data) = 3
        /\ ~IsDataPart(Emitted[1], 1)
        /\ data[2].kv[1].k = "ap2.mandates.IntentMandate"
        /\ data[3].kv[1].k = "shopping_agent_id"

\* the step is a retry (typed or clicked) that sends create_payment_mandate
RetrySendsMandate ==
  /\ lastMessage' = Message("assistant", "Retrying payment", FALSE)
  /\ MandateFetches(pending') > MandateFetches(pending)

(***************************************************************************)
(* C25. A retry creates a new Payment mandate only from the PaymentFailed  *)
(* state: every retry (the word retry or again typed, or a click on a      *)
(* Retry Payment button) that sends create_payment_mandate is made while   *)
(* the latest settlement attempt has failed, no checkout is in progress    *)
(* and the payment is not complete.                                        *)
(***************************************************************************)
C25_RetryOnlyAfterFailure ==
  [][RetrySendsMandate =>
       (paymentFailed /\ ~showStripeCheckout /\ ~paymentComplete)]_vars

(***************************************************************************)
(* SpecSettle: the page with what the runtime guarantees for checkout: the *)
(* fetch of the payment intent is answered in the end.  Nothing obliges    *)
(* the user to type, to click or to submit the payment form again.         *)
(***************************************************************************)
SpecSettle ==
  /\ UiInit /\ [][Next]_vars
  /\ WF_vars(IntentReady \/ IntentFails)

(***************************************************************************)
(* C24. Settlement always resolves: once the payment form was submitted    *)
(* for a signed Payment mandate and the payment processor has come back,   *)
(* the page reaches paymentComplete (settlement succeeded) or              *)
(* paymentFailed (settlement failed), whatever the processor returned; it  *)
(* does not stay in checkout for ever.                                     *)
(***************************************************************************)
C24_SettlementResolves == unsettled ~> (paymentComplete \/ paymentFailed)

\* the payment method a returned Payment mandate binds: its id and its type
BoundMethod ==
  [id |-> Dig(ReturnedContents, <<"payment_response", "details", "payment_method_id">>),
   type |-> Dig(ReturnedContents, <<"payment_response", "method_name">>)]

(***************************************************************************)
(* C29. The payment method bound into every signed Payment mandate         *)
(* (payment_response.details.payment_method_id and method_name) is the id  *)
(* and type of a method of the list the Credentials Provider returns: of   *)
(* its wallet.                                                             *)
(***************************************************************************)
C29_MethodFromWallet ==
  MandateReturned =>
     \E i \in 1..Len(Elems(wallet)) :
        /\ Get(Elems(wallet)[i], "id") = BoundMethod.id
        /\ Get(Elems(wallet)[i], "type") = BoundMethod.type

\* the search answered last came with a conversationHistory that holds a
\* message whose type is not system, human or ai
UnknownTagSearch ==
  /\ Answered("shopping")
  /\ call.request.method = "POST"
  /\ Get(call.request.body, "action") = JStr("search_vacations")
  /\ LET items == Elems(Get(call.request.body, "conversationHistory"))
     IN \E i \in 1..Len(items) :
           Get(items[i], "type") \notin {JStr("system"), JStr("human"), JStr("ai")}

(***************************************************************************)
(* C32. A search whose conversationHistory holds a message with an unknown *)
(* type tag fails with an error: the answer has an error status and an     *)
(* error body without cart mandates, no envelope is sent to the Merchant   *)
(* Agent and agent.chat is not called.                                     *)
(***************************************************************************)
C32_UnknownTagRejected ==
  UnknownTagSearch =>
     /\ call.response.status >= 400
     /\ Truthy(Get(call.response.body, "error"))
     /\ Get(call.response.body, "cart_mandates") = JUndef
     /\ call.response.sent = <<>>
     /\ call.response.chats = 0

\* the search was rejected by deserializeHistory itself
C32_Witness ==
  /\ UnknownTagSearch
  /\ call.response.status = 500
  /\ Get(call.response.body, "details") = JStr("Unknown message type")

\* create_payment_mandate requests the page sends when the user types text,
\* and when the user clicks a Retry Payment button
SentOnText(text) ==
  MandateFetches(AutoConfirm(handleSendMessage(Ui, text)).pending)
    - MandateFetches(pending)
SentOnRetryClick ==
  MandateFetches(AutoConfirm(handleRetryPayment(Ui)).pending) - MandateFetches(pending)

\* the page takes text as a confirmation, as a retry
IsConfirmation(text) ==
  /\ WantsToProceed(text)
  /\ selectedPackage # JNull /\ ~showStripeCheckout /\ ~paymentComplete
IsRetry(text) ==
  /\ WantsRetry(text)
  /\ paymentFailed /\ selectedPackage # JNull /\ ~paymentComplete

(***************************************************************************)
(* C35. Exactly one Payment mandate is asked for per confirmation or retry *)
(* event: in every state of the page, a message the user can send that     *)
(* confirms (yes or proceed, with a selected cart) or retries, and a click  *)
(* on a Retry Payment button, sends exactly one create_payment_mandate     *)
(* request, never none and never two.                                      *)
(***************************************************************************)
C35_OneMandatePerEvent ==
  /\ (~isProcessing /\ ~showStripeCheckout) =>
        \A text \in UserTexts \cup {"ok proceed", "yes, try again"} :
           (IsConfirmation(text) \/ IsRetry(text)) => SentOnText(text) = 1
  /\ RetryButtons > 0 => SentOnRetryClick = 1

\* the user has typed yes for a selected cart: one request is on its way
C35_Witness ==
  /\ lastMessage = Message("user", "yes", FALSE)
  /\ selectedPackage # JNull
  /\ MandateFetches(pending) = 1
  /\ Len(pending) = 1

\* the request answered last asked for a Payment mandate without a cart
\* mandate or without a payment method
IncompleteMandateRequest ==
  /\ Answered("shopping")
  /\ call.request.method = "POST"
  /\ Get(call.request.body, "action") = JStr("create_payment_mandate")
  /\ \/ Dig(call.request.body, <<"data", "cartMandate">>) = JUndef
     \/ Dig(call.request.body, <<"data", "paymentMethod">>) = JUndef

(***************************************************************************)
(* C34. create_payment_mandate signs nothing when its input is incomplete: *)
(* when the cart mandate or the payment method is missing from the request *)
(* data, the answer is an error and no Payment mandate and no token is     *)
(* made.                                                                   *)
(***************************************************************************)
C34_IncompleteSignsNothing ==
  IncompleteMandateRequest =>
     /\ call.response.status >= 400
     /\ Truthy(Get(call.response.body, "error"))
     /\ Get(call.response.body, "payment_mandate") = JUndef
     /\ call.response.signed = <<>>

\* a request with a signed cart and no payment method was answered 400
C34_Witness ==
  /\ IncompleteMandateRequest
  /\ Dig(call.request.body, <<"data", "cartMandate">>) = Wire(SignedCart)
  /\ call.response.status = 400

(***************************************************************************)
(* C33. When the Merchant Agent or the Credentials Provider answers the    *)
(* Shopping Agent with an error, the Shopping Agent answers the page with  *)
(* an error that carries neither cart mandates nor payment methods, having *)
(* sent its envelope once; the page shows one message and sends no request *)
(* of its own accord: for every search and every request for payment       *)
(* methods that is on its way, in every state of the page.                 *)
(***************************************************************************)
\* the answer to pending[i] when the peer answers with an error, and the
\* page after the handler that awaited it went on and the effect ran
AfterPeerError(i) ==
  LET f == pending[i]
      u == [Ui EXCEPT !.pending = Without(pending, i)]
      answer == ShoppingAgent(f.request, now, PeerAnswersError)
      served == Served(u, answer, f.cart)
  IN [answer |-> answer,
      page |-> AutoConfirm(IF f.kind = "search"
                             THEN SearchAnswered(served, answer.body, FALSE)
                             ELSE MethodsAnswered(served, answer.body, FALSE, f.cart))]

DetailsId(cartMandate) ==
  Dig(cartMandate, <<"contents", "payment_request", "details", "id">>)

C36_DetailsIdsDistinct ==
  (Answered("merchant") /\ call.response.status = 200) =>
     \A i, j \in 1..Len(ReturnedCarts) :
        i # j => DetailsId(ReturnedCarts[i]) # DetailsId(ReturnedCarts[j])

(***************************************************************************)
(* C37. In every state of the page paymentComplete and paymentFailed are   *)
(* not both true, and paymentFailed is false whenever the checkout is      *)
(* shown.                                                                  *)
(***************************************************************************)
C37_PaymentFlagsExclusive ==
  /\ ~(paymentComplete /\ paymentFailed)
  /\ showStripeCheckout => ~paymentFailed

(***************************************************************************)
(* C38. A payment intent is asked of /api/create-payment-intent only in    *)
(* the step in which the checkout comes to be shown for a signed Payment   *)
(* mandate: while the checkout is shown, a render of the page asks for no  *)
(* other one.                                                              *)
(***************************************************************************)
C38_OneIntentPerMandate ==
  [][intents' > intents => (~showStripeCheckout /\ showStripeCheckout')]_vars

(***************************************************************************)
(* SpecAmounts: the amounts of a cart as JavaScript computes them.  A      *)
(* number is an IEEE-754 double: a natural m of at most 53 binary digits   *)
(* times 2^e.  m is kept as the sequence of its binary digits, the least   *)
(* significant first, and is odd (or empty, for zero), so that two numbers *)
(* are equal exactly when their records are.                               *)
(***************************************************************************)
MaxPrice == 60
Currencies == {"USD", "EUR"}
MantissaBits == 53
PriceBits == 13

Bit(a, i) == IF i <= Len(a) THEN a[i] ELSE 0

\* the digits of a without its leading zeros
Strip(a) ==
  LET ones == {i \in 1..Len(a) : a[i] = 1}
  IN IF ones = {} THEN <<>>
     ELSE SubSeq(a, 1, CHOOSE i \in ones : \A j \in ones : j <= i)

\* the binary digits of a price
Bits(n) == Strip([i \in 1..PriceBits |-> (n \div (2 ^ (i - 1))) % 2])

ShiftLeft(a, k) == IF a = <<>> THEN <<>> ELSE [i \in 1..k |-> 0] \o a

\* a + b: position i takes a carry when a lower position makes one and
\* every position between hands it on
AddBits(a, b) ==
  LET n == (IF Len(a) > Len(b) THEN Len(a) ELSE Len(b)) + 1
      At2(i) == Bit(a, i) + Bit(b, i)
      Carry(i) == IF \E j \in 1..(i - 1) :
                       At2(j) = 2 /\ \A k \in (j + 1)..(i - 1) : At2(k) >= 1
                    THEN 1 ELSE 0
  IN Strip([i \in 1..n |-> (At2(i) + Carry(i)) % 2])

\* the binary digits of the natural written in hexadecimal (most significant
\* digit first) times the natural n < 2^PriceBits
MulHex(digits, n) ==
  LET len == Len(digits) + ((PriceBits + 3) \div 4)
      Digit(i) == IF i <= Len(digits) THEN digits[Len(digits) + 1 - i] ELSE 0
      Carry[i \in 0..len] ==
        IF i = 0 THEN 0 ELSE (Digit(i) * n + Carry[i - 1]) \div 16
      product == [i \in 1..len |-> (Digit(i) * n + Carry[i - 1]) % 16]
  IN Strip([i \in 1..(4 * len) |->
              (product[((i - 1) \div 4) + 1] \div (2 ^ ((i - 1) % 4))) % 2])

\* m * 2^e with m odd
Normal(m, e) ==
  IF m = <<>> THEN [m |-> <<>>, e |-> 0]
  ELSE LET low == CHOOSE i \in 1..Len(m) : m[i] = 1 /\ \A j \in 1..(i - 1) : m[j] = 0
       IN [m |-> SubSeq(m, low, Len(m)), e |-> e + low - 1]

\* the double nearest to m * 2^e, ties to the even mantissa
RoundToDouble(m, e) ==
  LET k == Len(m) - MantissaBits
  IN IF k <= 0 THEN Normal(m, e)
     ELSE LET high == SubSeq(m, k + 1, Len(m))
              up == /\ m[k] = 1
                    /\ \/ \E i \in 1..(k - 1) : m[i] = 1
                       \/ high[1] = 1
          IN Normal(IF up THEN AddBits(high, <<1>>) ELSE high, e + k)

\* the number literals 0.85, 0.05 and 0.10:
\* 0x1.b333333333333p-1, 0x1.999999999999ap-5, 0x1.999999999999ap-4
PackageShare == [hex |-> <<1, 11, 3, 3, 3, 3, 3, 3, 3, 3, 3, 3, 3, 3>>, e |-> -53]
InsuranceShare == [hex |-> <<1, 9, 9, 9, 9, 9, 9, 9, 9, 9, 9, 9, 9, 10>>, e |-> -57]
ServiceShare == [hex |-> <<1, 9, 9, 9, 9, 9, 9, 9, 9, 9, 9, 9, 9, 10>>, e |-> -56]

\* the number of a whole price
Number(n) == Normal(Bits(n), 0)

\* product.price * share
Times(price, share) == RoundToDouble(MulHex(share.hex, price), share.e)

\* x + y
Plus(x, y) ==
  LET e == IF x.e < y.e THEN x.e ELSE y.e
  IN RoundToDouble(AddBits(ShiftLeft(x.m, x.e - e), ShiftLeft(y.m, y.e - e)), e)

\* payment_request.details of the cart of a product: display_items and total
Details(product) ==
  [built |-> TRUE,
   product |-> product,
   display_items |->
     << [currency |-> product.currency, value |-> Times(product.price, PackageShare)],
        [currency |-> product.currency, value |-> Times(product.price, InsuranceShare)],
        [currency |-> product.currency, value |-> Times(product.price, ServiceShare)] >>,
   total |-> [currency |-> product.currency, value |-> Number(product.price)]]

\* a product of the catalog is about to be put in a cart
AmountsInit ==
  /\ now = 0
  /\ UiIdle
  /\ ApiIdle
  /\ phase = "idle"
  /\ cartContents = JUndef
  /\ jwt = NoToken
  /\ heldContents = JUndef
  /\ \E price \in 1..MaxPrice, currency \in Currencies :
       priced = [built |-> FALSE, product |-> [price |-> price, currency |-> currency]]
  /\ agent = NoAgent

\* the Merchant Agent builds the cart of the product
BuildCart ==
  /\ ~priced.built
  /\ priced' = Details(priced.product)
  /\ UNCHANGED <<now, phase, cartContents, jwt, heldContents, agent, apiVars, uiVars>>

SpecAmounts == AmountsInit /\ [][BuildCart]_vars

\* the display items added up as JavaScript adds numbers, from the first
ItemsTotal ==
  Plus(Plus(priced.display_items[1].value, priced.display_items[2].value),
       priced.display_items[3].value)

MaxHistory == 3

MessageClasses == {"SystemMessage", "HumanMessage", "AIMessage"}
Contents == {JStr("beach"), JStr("")}

Histories ==
  SeqOf({Chat(class, content) : class \in MessageClasses, content \in Contents},
        MaxHistory)

HistoryInit ==
  /\ now = 0
  /\ UiIdle
  /\ ApiIdle
  /\ phase = "idle"
  /\ cartContents = JUndef
  /\ jwt = NoToken
  /\ heldContents = JUndef
  /\ priced = NoPriced
  /\ \E h \in Histories : agent = [stage |-> "held", history |-> h]

\* res.json({..., conversationHistory: agent.serializeHistory()}) and the
\* caller's next request
SerializeHistory ==
  /\ agent.stage = "held"
  /\ agent' = [stage |-> "sent", history |-> agent.history,
               serialized |-> Wire(serializeHistory(agent.history))]
  /\ UNCHANGED <<now, phase, cartContents, jwt, heldContents, priced, apiVars, uiVars>>

\* new VacationBookingAgent(VacationBookingAgent.deserializeHistory(...))
DeserializeHistory ==
  /\ agent.stage = "sent"
  /\ LET restored == deserializeHistory(agent.serialized)
     IN agent' = [stage |-> "rebuilt", history |-> agent.history,
                  serialized |-> agent.serialized,
                  restored |-> restored,
                  conversationHistory |->
                    IF restored.threw THEN <<>> ELSE NewAgent(restored.value)]
  /\ UNCHANGED <<now, phase, cartContents, jwt, heldContents, priced, apiVars, uiVars>>

HistoryNext == SerializeHistory \/ DeserializeHistory

SpecHistory == HistoryInit /\ [][HistoryNext]_vars

(***************************************************************************)
(* C31. Session round trip: for every conversation history h of system,    *)
(* human and ai messages, deserializeHistory(serializeHistory(h)) has the  *)
(* length of h and the message type and content of h at every position,    *)
(* and an agent rebuilt from it holds the turns of h.                      *)
(***************************************************************************)
C31_HistoryRoundTrip ==
  agent.stage = "rebuilt" =>
     /\ ~agent.restored.threw
     /\ Len(agent.restored.value) = Len(agent.history)
     /\ \A i \in 1..Len(agent.history) :
          /\ GetType(agent.restored.value[i]) = GetType(agent.history[i])
          /\ agent.restored.value[i].content = agent.history[i].content
     /\ agent.history # <<>> => agent.conversationHistory = agent.history

\* a history of three messages, one of each type, one of them with empty
\* content, was rebuilt
C31_Witness ==
  /\ agent.stage = "rebuilt"
  /\ Len(agent.history) = 3
  /\ {agent.history[i].class : i \in 1..3} = MessageClasses
  /\ \E i \in 1..3 : agent.history[i].content = JStr("")
  /\ agent.conversationHistory = agent.history

====
